---- MODULE Spec2Model ----
(***************************************************************************)
(* BookBridge: a book marketplace whose pages call a managed store         *)
(* (tables with row-level policies) directly.  The module models           *)
(*   - the store: the tables profiles, books, orders, conversations and    *)
(*     messages, the storage objects, their constraints, row-level         *)
(*     policies, cascades and the signup trigger (the SQL migrations);     *)
(*   - the Checkout page: fetchBook, the quantity field and handleSubmit   *)
(*     (order insert, then inventory update), one instance per client;     *)
(*   - the Chat page: init, fetchMessages, markMessagesAsRead,             *)
(*     sendMessage and the realtime channel;                               *)
(*   - the AddBook page: handleSubmit (image upload, then book insert);    *)
(*   - the MyBooks page: checkAuth, fetchMyBooks and handleDelete.         *)
(* Spec is the Checkout page of two clients running against the store,     *)
(* StockedSpec the same with the listing fully stocked; BooksSpec,          *)
(* OrdersSpec, ProfilesSpec and StorageSpec are one table each, called     *)
(* directly by any caller with any row; SignupSpec is account creation     *)
(* and removal and CascadeSpec rows coming and going along the foreign     *)
(* keys; ChatSpec and FeedSpec are one open Chat page with the other       *)
(* parties writing, SwitchSpec that page taken from one conversation to    *)
(* the other; PagesSpec is one browser going through Checkout, AddBook     *)
(* and Chat; MyBooksSpec is the MyBooks page.                              *)
(***************************************************************************)
EXTENDS Integers, FiniteSets, Sequences, TLC

\* ------------------------------------------------------------------ bounds
MaxCopies == 2       \* largest initial available_copies
MaxOrders == 2       \* order rows the store holds at most

\* ------------------------------------------------------------------ values
NULL == "null"                        \* a null id
None == {}                            \* a null number; Some(n) is the number n
Some(n) == {n}
The(x) == CHOOSE n \in x : TRUE
Unset == [unset |-> TRUE]             \* a React state holding null
NoUser == "anon"                      \* a caller without a session
Users == {"u1", "u2", "u3"}           \* auth.users ids
Callers == Users \cup {NoUser}
BookIds == {"b1", "b2"}
Clients == 1..2                       \* two browsers, each with a Checkout page
Modes == {"sell", "donate", "exchange"}

\* auth.uid(): NULL for a caller without a session
AuthUid(c) == IF c = NoUser THEN NULL ELSE c

\* SQL '=': true only when both sides are non-null and equal
SqlEq(a, b) == a # NULL /\ b # NULL /\ a = b

\* a row with the columns of patch replaced (UPDATE ... SET)
Patch(row, patch) ==
  [f \in DOMAIN row |-> IF f \in DOMAIN patch THEN patch[f] ELSE row[f]]

VARIABLES
  accounts,     \* auth.users: the set of account ids
  profiles,     \* public.profiles: id -> row, for the ids that have a row
  books,        \* public.books: id -> row, for the ids that have a row
  orders,       \* orders: a set of rows
  nextOrderId,  \* the next order id the store generates
  last,         \* the last direct store call and what the store answered
  session,      \* client -> the signed-in user or NoUser
  route,        \* client -> the route the browser shows
  pc,           \* client -> position in Checkout.handleSubmit
  book,         \* client -> Checkout's book state (a loaded row or NULL)
  quantity,     \* client -> Checkout's quantity state
  loading,      \* client -> Checkout's loading flag
  sub,          \* client -> the running/last submission: captured values and history
  conversations,\* public.conversations: a set of rows
  messages,     \* public.messages: a set of rows
  clock,        \* the store's now()
  chat,         \* client -> the state of its Chat page
  objects,      \* storage.objects: a set of rows
  addBook,      \* client -> the state of its AddBook page
  myBooks       \* client -> the state of its MyBooks page

storeVars == <<accounts, profiles, books, orders, nextOrderId>>
checkoutVars == <<session, route, pc, book, quantity, loading, sub>>
restVars == <<conversations, messages, clock, chat, objects, addBook, myBooks>>
vars == <<accounts, profiles, books, orders, nextOrderId, last,
          session, route, pc, book, quantity, loading, sub,
          conversations, messages, clock, chat, objects, addBook, myBooks>>

\* ------------------------------------------------------------ store: books
price_not_negative_for_sell(row) ==
  (row.mode # "sell") \/ (row.mode = "sell" /\ row.price # None /\ The(row.price) >= 0)
price_iff_sell(row) ==
  (row.mode # "sell" /\ row.price = None)
    \/ (row.mode = "sell" /\ row.price # None /\ The(row.price) > 0)
\* CONSTRAINT price_required_for_sell
price_required_for_sell(row) ==
  (row.mode # "sell") \/ (row.mode = "sell" /\ row.price # None /\ The(row.price) > 0)

\* policy "Books are viewable by everyone"
BooksSelectPolicy(c, row) == TRUE

BooksInsertPolicyAnyUser(c, new) == AuthUid(c) # NULL
\* policy "Users can insert own books"
BooksInsertPolicy(c, new) == SqlEq(AuthUid(c), new.user_id)

BooksUpdatePolicyOpen(c, row) == TRUE
\* policy "Users can update own books"
BooksUpdatePolicy(c, row) == SqlEq(AuthUid(c), row.user_id)

\* policy "Users can delete own books"
BooksDeletePolicy(c, row) == SqlEq(AuthUid(c), row.user_id)

\* the rows an UPDATE ... WHERE id = id by caller c touches
BooksUpdateHits(c, id) == id \in DOMAIN books /\ BooksUpdatePolicy(c, books[id])

\* BooksUpdateError with the policy applied to the stored row only
BooksUpdateErrorUsingOnly(c, id, patch) ==
  IF ~BooksUpdateHits(c, id) THEN "none"
  ELSE LET new == Patch(books[id], patch) IN
       IF new.user_id = NULL \/ new.mode = NULL \/ new.available_copies = None
         THEN "not_null"
       ELSE IF new.user_id \notin DOMAIN profiles THEN "fk"
       ELSE IF ~price_required_for_sell(new) THEN "check"
       ELSE "none"

\* the error an UPDATE of book id by caller c returns ("none": no error; an
\* UPDATE that touches no row is no error)
BooksUpdateError(c, id, patch) ==
  IF ~BooksUpdateHits(c, id) THEN "none"
  ELSE LET new == Patch(books[id], patch) IN
       IF ~BooksUpdatePolicy(c, new) THEN "rls"
       ELSE IF new.user_id = NULL \/ new.mode = NULL \/ new.available_copies = None
         THEN "not_null"
       ELSE IF new.user_id \notin DOMAIN profiles THEN "fk"
       ELSE IF ~price_required_for_sell(new) THEN "check"
       ELSE "none"

\* the books table after that UPDATE
BooksAfterUpdate(c, id, patch) ==
  IF BooksUpdateHits(c, id) /\ BooksUpdateError(c, id, patch) = "none"
  THEN [books EXCEPT ![id] = Patch(books[id], patch)]
  ELSE books

\* the error an INSERT of row new into books by caller c returns; the
\* policy's WITH CHECK is evaluated before the table's constraints
BooksInsertError(c, new) ==
  IF ~BooksInsertPolicy(c, new) THEN "rls"
  ELSE IF new.user_id = NULL \/ new.mode = NULL \/ new.available_copies = None
    THEN "not_null"
  ELSE IF new.user_id \notin DOMAIN profiles THEN "fk"
  ELSE IF ~price_required_for_sell(new) THEN "check"
  ELSE "none"

\* the books table after that INSERT, the store generating the id
BooksAfterInsert(c, id, new) ==
  IF BooksInsertError(c, new) = "none"
  THEN [b \in DOMAIN books \cup {id} |-> IF b = id THEN new ELSE books[b]]
  ELSE books

\* the rows a DELETE ... WHERE id = id by caller c touches
BooksDeleteHits(c, id) == id \in DOMAIN books /\ BooksDeletePolicy(c, books[id])

\* the books table after that DELETE
BooksAfterDelete(c, id) ==
  IF BooksDeleteHits(c, id)
  THEN [b \in DOMAIN books \ {id} |-> books[b]]
  ELSE books

\* the book ids a SELECT by caller c returns
BooksSelect(c) == {b \in DOMAIN books : BooksSelectPolicy(c, books[b])}

\* ----------------------------------------------------------- store: orders
OrdersSelectPolicyBuyerOnly(c, row) == SqlEq(AuthUid(c), row.buyer_id)
\* policy "Users can view their own orders"
OrdersSelectPolicy(c, row) ==
  SqlEq(AuthUid(c), row.buyer_id) \/ SqlEq(AuthUid(c), row.seller_id)

\* policy "Users can create orders"
OrdersInsertPolicy(c, new) == SqlEq(AuthUid(c), new.buyer_id)

\* the error an INSERT into orders by caller c returns
OrdersInsertError(c, new) ==
  IF ~OrdersInsertPolicy(c, new) THEN "rls"
  ELSE IF new.book_id = NULL \/ new.buyer_id = NULL \/ new.seller_id = NULL
          \/ new.quantity = None \/ new.total_price = None
    THEN "not_null"
  ELSE IF new.book_id \notin DOMAIN books THEN "fk"
  ELSE "none"

\* the orders table after that INSERT: the row gets the next generated id
OrdersAfterInsert(c, new) ==
  IF OrdersInsertError(c, new) = "none"
  THEN orders \cup {[new EXCEPT !.id = nextOrderId]}
  ELSE orders

\* orders has row level security enabled and no UPDATE and no DELETE policy:
\* no row is visible to such a statement
OrdersUpdatePolicy(c, row) == FALSE
OrdersDeletePolicy(c, row) == FALSE

\* the orders table after UPDATE ... WHERE id = id, and after DELETE
OrdersAfterUpdate(c, id, patch) ==
  {IF o.id = id /\ OrdersUpdatePolicy(c, o) THEN Patch(o, patch) ELSE o : o \in orders}
OrdersAfterDelete(c, id) ==
  {o \in orders : ~(o.id = id /\ OrdersDeletePolicy(c, o))}

\* the rows a SELECT on orders by caller c returns
OrdersSelect(c) == {o \in orders : OrdersSelectPolicy(c, o)}

\* a book delete without the cascade to orders
OrdersAfterBookDeleteKept(c, id) == orders
\* orders.book_id ... ON DELETE CASCADE: the orders left when book id is deleted
OrdersAfterBookDelete(c, id) ==
  IF BooksDeleteHits(c, id) THEN {o \in orders : o.book_id # id} ELSE orders

\* --------------------------------------------------------- store: profiles
\* policy "Public profiles are viewable by everyone"
ProfilesSelectPolicy(c, id) == TRUE

ProfilesUpdatePolicyAnyUser(c, id) == AuthUid(c) # NULL
\* policy "Users can update own profile"
ProfilesUpdatePolicy(c, id) == SqlEq(AuthUid(c), id)

\* policy "Users can insert own profile"
ProfilesInsertPolicy(c, id) == SqlEq(AuthUid(c), id)

\* row level security is enabled on profiles and no policy is FOR DELETE
ProfilesDeletePolicy(c, id) == FALSE

\* the error an INSERT of a profile with this id by caller c returns
ProfilesInsertError(c, id) ==
  IF ~ProfilesInsertPolicy(c, id) THEN "rls"
  ELSE IF id = NULL THEN "not_null"
  ELSE IF id \in DOMAIN profiles THEN "unique"
  ELSE IF id \notin accounts THEN "fk"
  ELSE "none"

\* the profiles table after that INSERT
ProfilesAfterInsert(c, id, row) ==
  IF ProfilesInsertError(c, id) = "none"
  THEN [u \in DOMAIN profiles \cup {id} |-> IF u = id THEN row ELSE profiles[u]]
  ELSE profiles

\* the rows an UPDATE ... WHERE id = id by caller c touches
ProfilesUpdateHits(c, id) == id \in DOMAIN profiles /\ ProfilesUpdatePolicy(c, id)

\* the error an UPDATE that sets the row's id to newId returns (newId = id
\* when the id is not among the columns set)
ProfilesUpdateError(c, id, newId) ==
  IF ~ProfilesUpdateHits(c, id) THEN "none"
  ELSE IF ~ProfilesUpdatePolicy(c, newId) THEN "rls"
  ELSE "none"

\* the profiles table after an UPDATE that sets full_name (and the id)
ProfilesAfterUpdate(c, id, newId, name) ==
  IF ProfilesUpdateHits(c, id) /\ ProfilesUpdateError(c, id, newId) = "none"
  THEN [profiles EXCEPT ![id] = [@ EXCEPT !.full_name = name]]
  ELSE profiles

\* the rows a DELETE ... WHERE id = id by caller c touches
ProfilesDeleteHits(c, id) == id \in DOMAIN profiles /\ ProfilesDeletePolicy(c, id)

\* the profiles table after that DELETE
ProfilesAfterDelete(c, id) ==
  IF ProfilesDeleteHits(c, id)
  THEN [u \in DOMAIN profiles \ {id} |-> profiles[u]]
  ELSE profiles

\* the profile ids a SELECT by caller c returns
ProfilesSelect(c) == {u \in DOMAIN profiles : ProfilesSelectPolicy(c, u)}

\* ------------------------------------------------------------------- Init
\* a books row
BookRow(u, m, p, a) ==
  [user_id |-> u, mode |-> m, price |-> p, available_copies |-> a]

\* a Chat page that is not mounted
ChatClosed ==
  [conversationId |-> NULL, pc |-> "closed", currentUser |-> Unset,
   loading |-> TRUE,
   messages |-> <<>>, newMessage |-> <<>>, send |-> Unset, inbox |-> <<>>,
   channels |-> {}, calls |-> {}, submit |-> Unset, log |-> {}]

\* an AddBook page that is not mounted
AddBookClosed ==
  [pc |-> "closed", loading |-> FALSE, imageFile |-> FALSE, mode |-> "",
   price |-> None, calls |-> {}, sent |-> Unset, outcome |-> "none"]

\* no conversation, no message, no stored object, no Chat or AddBook page open
MyBooksClosed ==
  [pc |-> "closed", books |-> {}, loading |-> TRUE, deletes |-> {},
   gone |-> {}, log |-> {}]

InitRest ==
  /\ conversations = {}
  /\ messages = {}
  /\ clock = 0
  /\ chat = [k \in Clients |-> ChatClosed]
  /\ objects = {}
  /\ addBook = [k \in Clients |-> AddBookClosed]
  /\ myBooks = [k \in Clients |-> MyBooksClosed]

InitStore ==
  /\ accounts = Users
  /\ profiles = [u \in Users |-> [full_name |-> "n"]]
  /\ \E a \in 0..MaxCopies :
       books = [b \in {"b1"} |-> BookRow("u1", "sell", Some(200), Some(a))]
  /\ orders = {}
  /\ nextOrderId = 1
  /\ last = [op |-> "none"]

\* clients are interchangeable: only sessions in ascending order are started
Rank(c) == CASE c = "u1" -> 1 [] c = "u2" -> 2 [] c = "u3" -> 3 [] OTHER -> 4

InitCheckout ==
  /\ session \in {s \in [Clients -> Callers] :
                    \A i, j \in Clients : i < j => Rank(s[i]) <= Rank(s[j])}
  /\ route = [k \in Clients |-> "checkout"]
  /\ pc = [k \in Clients |-> "idle"]
  /\ book = [k \in Clients |-> Unset]
  /\ quantity = [k \in Clients |-> 1]
  /\ loading = [k \in Clients |-> FALSE]
  /\ sub = [k \in Clients |-> Unset]

Init == InitStore /\ InitCheckout /\ InitRest

\* ------------------------------------------------------------- Checkout
\* what supabase-js reports for a request: delivered, or failed on the way
Net == {"ok", "fail"}

\* parseInt(e.target.value) || 1 for the inputs an <input type=number> gives
\* (None: a field parseInt turns into NaN)
ParseIntOr1(v) == IF v = None \/ The(v) = 0 THEN 1 ELSE The(v)

\* the values a user can type into the quantity field
Typed == {Some(n) : n \in -1..2} \cup {None}

\* JavaScript book.price * quantity (null * n is 0)
TotalPrice(b, q) == IF b.price = None THEN 0 ELSE The(b.price) * q

QuantityExceedsOff(q, b) == FALSE
QuantityExceedsLate(q, b) == q > The(b.available_copies) + 1
\* the local check: quantity > book.available_copies
QuantityExceeds(q, b) == q > The(b.available_copies)

\* the row handleSubmit inserts into orders
OrderRow(b, uid, q) ==
  [id |-> NULL, book_id |-> b.id, buyer_id |-> uid, seller_id |-> b.user_id,
   quantity |-> Some(q), total_price |-> Some(TotalPrice(b, q)),
   payment_method |-> "cod", status |-> "pending"]

\* the available_copies value handleSubmit writes
NewCopies(b, q) == The(b.available_copies) - q

AfterInsertNoThrow(err) == "update"
\* if (orderError) throw orderError: where handleSubmit goes after step 1
AfterInsert(err) == IF err = "none" THEN "update" ELSE "done"

\* client k's store write landed: every other client's submission has seen
\* another client act since it began
Disturbed(k, s) ==
  [j \in Clients |->
     IF j = k THEN s
     ELSE IF sub[j] # Unset THEN [sub[j] EXCEPT !.solo = FALSE]
     ELSE sub[j]]

\* useEffect -> fetchBook: select * from books where id = bookId, single()
fetchBook(k, b) ==
  /\ pc[k] = "idle" /\ route[k] = "checkout" /\ book[k] = Unset
  /\ \E net \in Net :
       IF net = "ok" /\ b \in DOMAIN books /\ BooksSelectPolicy(session[k], books[b])
       THEN /\ book' = [book EXCEPT ![k] =
                          [id |-> b, user_id |-> books[b].user_id,
                           mode |-> books[b].mode, price |-> books[b].price,
                           available_copies |-> books[b].available_copies]]
            /\ route' = route
       ELSE /\ book' = book
            /\ route' = [route EXCEPT ![k] = "browse"]
  /\ UNCHANGED <<restVars, storeVars, last, session, pc, quantity, loading, sub>>

\* the quantity field's onChange
setQuantity(k, v) ==
  /\ pc[k] = "idle" /\ route[k] = "checkout" /\ book[k] # Unset
  /\ quantity' = [quantity EXCEPT ![k] = ParseIntOr1(v)]
  /\ quantity'[k] # quantity[k]
  /\ UNCHANGED <<restVars, storeVars, last, session, route, pc, book, loading, sub>>

\* handleSubmit without its session test
handleSubmitNoSessionTest(k) ==
  /\ pc[k] = "idle" /\ route[k] = "checkout" /\ book[k] # Unset
  /\ NewCopies(book[k], quantity[k]) <= MaxCopies + 1
  /\ LET s == [book |-> book[k], quantity |-> quantity[k], uid |-> session[k],
               preBooks |-> books, preOrders |-> orders, solo |-> TRUE,
               inserts |-> 0, updates |-> 0, insertError |-> "none",
               updateError |-> "none", outcome |-> "running"]
     IN
     IF QuantityExceeds(quantity[k], book[k])
     THEN /\ route' = route
          /\ pc' = [pc EXCEPT ![k] = "done"]
          /\ loading' = [loading EXCEPT ![k] = FALSE]
          /\ sub' = [sub EXCEPT ![k] = [s EXCEPT !.outcome = "rejected"]]
     ELSE /\ Cardinality(orders)
               + Cardinality({j \in Clients : pc[j] = "insert"}) < MaxOrders
          /\ route' = route
          /\ pc' = [pc EXCEPT ![k] = "insert"]
          /\ loading' = [loading EXCEPT ![k] = TRUE]
          /\ sub' = [sub EXCEPT ![k] = s]
  /\ UNCHANGED <<restVars, storeVars, last, session, book, quantity>>

\* handleSubmit up to its first store call: the session check, the local
\* quantity check.  The form is rendered only when book is set.
handleSubmit(k) ==
  /\ pc[k] = "idle" /\ route[k] = "checkout" /\ book[k] # Unset
  /\ NewCopies(book[k], quantity[k]) <= MaxCopies + 1
  /\ LET s == [book |-> book[k], quantity |-> quantity[k], uid |-> session[k],
               preBooks |-> books, preOrders |-> orders, solo |-> TRUE,
               inserts |-> 0, updates |-> 0, insertError |-> "none",
               updateError |-> "none", outcome |-> "running"]
     IN
     IF session[k] = NoUser
     THEN /\ route' = [route EXCEPT ![k] = "auth"]
          /\ pc' = [pc EXCEPT ![k] = "done"]
          /\ loading' = [loading EXCEPT ![k] = FALSE]
          /\ sub' = [sub EXCEPT ![k] = [s EXCEPT !.outcome = "auth"]]
     ELSE IF QuantityExceeds(quantity[k], book[k])
     THEN /\ route' = route
          /\ pc' = [pc EXCEPT ![k] = "done"]
          /\ loading' = [loading EXCEPT ![k] = FALSE]
          /\ sub' = [sub EXCEPT ![k] = [s EXCEPT !.outcome = "rejected"]]
     ELSE /\ Cardinality(orders)
               + Cardinality({j \in Clients : pc[j] = "insert"}) < MaxOrders
          /\ route' = route
          /\ pc' = [pc EXCEPT ![k] = "insert"]
          /\ loading' = [loading EXCEPT ![k] = TRUE]
          /\ sub' = [sub EXCEPT ![k] = s]
  /\ UNCHANGED <<restVars, storeVars, last, session, book, quantity>>

\* step 1: supabase.from("orders").insert([...]); on an error the handler
\* throws to its catch and finally blocks
insertOrder(k) ==
  /\ pc[k] = "insert"
  /\ \E net \in Net :
       LET s == sub[k]
           row == OrderRow(s.book, s.uid, s.quantity)
           err == IF net = "fail" THEN "network" ELSE OrdersInsertError(s.uid, row)
       IN
       /\ orders' = IF net = "ok" THEN OrdersAfterInsert(s.uid, row) ELSE orders
       /\ nextOrderId' = IF orders' # orders THEN nextOrderId + 1 ELSE nextOrderId
       /\ IF AfterInsert(err) = "update"
          THEN /\ pc' = [pc EXCEPT ![k] = "update"]
               /\ loading' = loading
               /\ sub' = Disturbed(k, [s EXCEPT !.inserts = @ + 1,
                                                !.insertError = err])
          ELSE /\ pc' = [pc EXCEPT ![k] = "done"]
               /\ loading' = [loading EXCEPT ![k] = FALSE]
               /\ sub' = [sub EXCEPT ![k] =
                            [s EXCEPT !.inserts = @ + 1, !.insertError = err,
                                      !.outcome = "error"]]
  /\ UNCHANGED <<restVars, accounts, profiles, books, last, session, route, book, quantity>>

\* updateCopies with a compensating delete of the order when the update fails
updateCopiesCompensating(k) ==
  /\ pc[k] = "update"
  /\ \E net \in Net :
       LET s == sub[k]
           patch == [available_copies |-> Some(NewCopies(s.book, s.quantity))]
           err == IF net = "fail" THEN "network"
                  ELSE BooksUpdateError(s.uid, s.book.id, patch)
       IN
       /\ books' = IF net = "ok" THEN BooksAfterUpdate(s.uid, s.book.id, patch)
                   ELSE books
       /\ orders' = IF err = "none" THEN orders
                    ELSE {o \in orders : o \in s.preOrders}
       /\ pc' = [pc EXCEPT ![k] = "done"]
       /\ loading' = [loading EXCEPT ![k] = FALSE]
       /\ route' = [route EXCEPT ![k] = IF err = "none" THEN "browse" ELSE @]
       /\ sub' = Disturbed(k, [s EXCEPT !.updates = @ + 1, !.updateError = err,
                                 !.outcome = IF err = "none" THEN "placed"
                                             ELSE "error"])
  /\ UNCHANGED <<restVars, accounts, profiles, nextOrderId, last, session, book,
                 quantity>>

\* step 2: supabase.from("books").update({available_copies: ...}).eq("id", ...)
\* and the rest of the handler
updateCopies(k) ==
  /\ pc[k] = "update"
  /\ \E net \in Net :
       LET s == sub[k]
           patch == [available_copies |-> Some(NewCopies(s.book, s.quantity))]
           err == IF net = "fail" THEN "network"
                  ELSE BooksUpdateError(s.uid, s.book.id, patch)
       IN
       /\ books' = IF net = "ok" THEN BooksAfterUpdate(s.uid, s.book.id, patch)
                   ELSE books
       /\ pc' = [pc EXCEPT ![k] = "done"]
       /\ loading' = [loading EXCEPT ![k] = FALSE]
       /\ route' = [route EXCEPT ![k] = IF err = "none" THEN "browse" ELSE @]
       /\ sub' = Disturbed(k, [s EXCEPT !.updates = @ + 1, !.updateError = err,
                                 !.outcome = IF err = "none" THEN "placed"
                                             ELSE "error"])
  /\ UNCHANGED <<restVars, accounts, profiles, orders, nextOrderId, last, session, book,
                 quantity>>

\* handleSubmit has returned: the page is rendered again with its state
settle(k) ==
  /\ pc[k] = "done"
  /\ pc' = [pc EXCEPT ![k] = "idle"]
  /\ sub' = [sub EXCEPT ![k] = Unset]
  /\ UNCHANGED <<restVars, storeVars, last, session, route, book, quantity, loading>>

\* the user opens the checkout page again: a fresh mount of the component
openCheckout(k) ==
  /\ pc[k] = "idle" /\ route[k] # "checkout"
  /\ route' = [route EXCEPT ![k] = "checkout"]
  /\ book' = [book EXCEPT ![k] = Unset]
  /\ quantity' = [quantity EXCEPT ![k] = 1]
  /\ loading' = [loading EXCEPT ![k] = FALSE]
  /\ UNCHANGED <<restVars, storeVars, last, session, pc, sub>>

Next ==
  \/ \E k \in Clients, b \in BookIds : fetchBook(k, b)
  \/ \E k \in Clients, v \in Typed : setQuantity(k, v)
  \/ \E k \in Clients : handleSubmit(k)
  \/ \E k \in Clients : insertOrder(k)
  \/ \E k \in Clients : updateCopies(k)
  \/ \E k \in Clients : settle(k)
  \/ \E k \in Clients : openCheckout(k)

Spec == Init /\ [][Next]_vars

\* the same pages with b1 listed with MaxCopies copies
InitStocked == Init /\ books["b1"].available_copies = Some(MaxCopies)

StockedSpec == InitStocked /\ [][Next]_vars

\* ------------------------------------------------- the store called directly
\* Any caller can send any request to the store's REST interface; the
\* policies and constraints decide.  The variable last records the request,
\* the table as it was, and the store's answer.
ApiUsers == {"u1", "u2"}
ApiCallers == ApiUsers \cup {NoUser}
Prices == {None, Some(-5), Some(0), Some(200)}
ApiBookRows == {BookRow(u, m, p, Some(1)) : u \in ApiUsers, m \in Modes, p \in Prices}
ApiBookPatches ==
  {[price |-> p] : p \in Prices} \cup {[mode |-> m] : m \in Modes}
    \cup {[user_id |-> u] : u \in ApiUsers}
ApiOrderRows ==
  {[id |-> NULL, book_id |-> b, buyer_id |-> u, seller_id |-> v,
    quantity |-> Some(1), total_price |-> Some(200),
    payment_method |-> "cod", status |-> "pending"] :
     b \in BookIds, u \in ApiUsers, v \in ApiUsers}
ApiOrderPatches ==
  {[status |-> "delivered"], [quantity |-> Some(2)], [buyer_id |-> "u1"]}
Names == {"n", "m"}

\* no Checkout page is open
NoCheckout ==
  /\ session = [k \in Clients |-> NoUser]
  /\ route = [k \in Clients |-> "browse"]
  /\ pc = [k \in Clients |-> "idle"]
  /\ book = [k \in Clients |-> Unset]
  /\ quantity = [k \in Clients |-> 1]
  /\ loading = [k \in Clients |-> FALSE]
  /\ sub = [k \in Clients |-> Unset]

\* the tables with one listing
InitApi ==
  /\ accounts = Users
  /\ profiles = [u \in Users |-> [full_name |-> "n"]]
  /\ books = [b \in {"b1"} |-> BookRow("u1", "sell", Some(200), Some(1))]
  /\ orders = {}
  /\ nextOrderId = 1
  /\ last = [op |-> "none"]
  /\ NoCheckout
  /\ InitRest

\* supabase.from("books").insert(row) by caller c
apiBooksInsert(c, id, row) ==
  /\ id \notin DOMAIN books
  /\ books' = BooksAfterInsert(c, id, row)
  /\ last' = [op |-> "books.insert", caller |-> c, id |-> id, row |-> row,
              was |-> books, error |-> BooksInsertError(c, row)]
  /\ UNCHANGED <<restVars, accounts, profiles, orders, nextOrderId, checkoutVars>>

\* supabase.from("books").update(patch).eq("id", id) by caller c
apiBooksUpdate(c, id, patch) ==
  /\ books' = BooksAfterUpdate(c, id, patch)
  /\ last' = [op |-> "books.update", caller |-> c, id |-> id, patch |-> patch,
              was |-> books, error |-> BooksUpdateError(c, id, patch),
              count |-> IF BooksUpdateHits(c, id)
                           /\ BooksUpdateError(c, id, patch) = "none"
                        THEN 1 ELSE 0]
  /\ UNCHANGED <<restVars, accounts, profiles, orders, nextOrderId, checkoutVars>>

\* supabase.from("books").delete().eq("id", id) by caller c
apiBooksDelete(c, id) ==
  /\ books' = BooksAfterDelete(c, id)
  /\ orders' = OrdersAfterBookDelete(c, id)
  /\ last' = [op |-> "books.delete", caller |-> c, id |-> id, was |-> books,
              count |-> IF BooksDeleteHits(c, id) THEN 1 ELSE 0]
  /\ UNCHANGED <<restVars, accounts, profiles, nextOrderId, checkoutVars>>

\* supabase.from("books").select("*") by caller c
apiBooksSelect(c) ==
  /\ last' = [op |-> "books.select", caller |-> c, rows |-> BooksSelect(c)]
  /\ UNCHANGED <<restVars, storeVars, checkoutVars>>

BooksNext ==
  \/ \E c \in ApiCallers, id \in BookIds, row \in ApiBookRows :
       apiBooksInsert(c, id, row)
  \/ \E c \in ApiCallers, id \in BookIds, patch \in ApiBookPatches :
       apiBooksUpdate(c, id, patch)
  \/ \E c \in ApiCallers, id \in BookIds : apiBooksDelete(c, id)
  \/ \E c \in ApiCallers : apiBooksSelect(c)

BooksSpec == InitApi /\ [][BooksNext]_vars

\* supabase.from("orders").insert(row) by caller c
apiOrdersInsert(c, row) ==
  /\ Cardinality(orders) < MaxOrders
  /\ orders' = OrdersAfterInsert(c, row)
  /\ nextOrderId' = IF orders' # orders THEN nextOrderId + 1 ELSE nextOrderId
  /\ last' = [op |-> "orders.insert", caller |-> c, row |-> row,
              was |-> orders, error |-> OrdersInsertError(c, row)]
  /\ UNCHANGED <<restVars, accounts, profiles, books, checkoutVars>>

\* supabase.from("orders").select("*") by caller c
apiOrdersSelect(c) ==
  /\ last' = [op |-> "orders.select", caller |-> c, rows |-> OrdersSelect(c)]
  /\ UNCHANGED <<restVars, storeVars, checkoutVars>>

\* supabase.from("orders").update(patch).eq("id", id) by caller c
apiOrdersUpdate(c, id, patch) ==
  /\ orders' = OrdersAfterUpdate(c, id, patch)
  /\ last' = [op |-> "orders.update", caller |-> c, id |-> id, patch |-> patch,
              was |-> orders, count |-> Cardinality(orders' \ orders)]
  /\ UNCHANGED <<restVars, accounts, profiles, books, nextOrderId, checkoutVars>>

\* supabase.from("orders").delete().eq("id", id) by caller c
apiOrdersDelete(c, id) ==
  /\ orders' = OrdersAfterDelete(c, id)
  /\ last' = [op |-> "orders.delete", caller |-> c, id |-> id,
              was |-> orders, count |-> Cardinality(orders \ orders')]
  /\ UNCHANGED <<restVars, accounts, profiles, books, nextOrderId, checkoutVars>>

\* the tables when account u3 predates the on_auth_user_created trigger and
\* so has no profile row
InitProfiles ==
  /\ accounts = Users
  /\ profiles = [u \in {"u1", "u2"} |-> [full_name |-> "n"]]
  /\ books = [b \in {"b1"} |-> BookRow("u1", "sell", Some(200), Some(1))]
  /\ orders = {}
  /\ nextOrderId = 1
  /\ last = [op |-> "none"]
  /\ NoCheckout
  /\ InitRest

\* supabase.from("profiles").insert({id, full_name}) by caller c
apiProfilesInsert(c, id, name) ==
  /\ profiles' = ProfilesAfterInsert(c, id, [full_name |-> name])
  /\ last' = [op |-> "profiles.insert", caller |-> c, id |-> id, name |-> name,
              was |-> profiles, error |-> ProfilesInsertError(c, id)]
  /\ UNCHANGED <<restVars, accounts, books, orders, nextOrderId, checkoutVars>>

\* supabase.from("profiles").update({full_name[, id]}).eq("id", id) by caller c
apiProfilesUpdate(c, id, newId, name) ==
  /\ profiles' = ProfilesAfterUpdate(c, id, newId, name)
  /\ last' = [op |-> "profiles.update", caller |-> c, id |-> id, newId |-> newId,
              name |-> name, was |-> profiles,
              error |-> ProfilesUpdateError(c, id, newId),
              count |-> IF ProfilesUpdateHits(c, id)
                           /\ ProfilesUpdateError(c, id, newId) = "none"
                        THEN 1 ELSE 0]
  /\ UNCHANGED <<restVars, accounts, books, orders, nextOrderId, checkoutVars>>

\* supabase.from("profiles").delete().eq("id", id) by caller c
apiProfilesDelete(c, id) ==
  /\ profiles' = ProfilesAfterDelete(c, id)
  /\ last' = [op |-> "profiles.delete", caller |-> c, id |-> id, was |-> profiles,
              count |-> IF ProfilesDeleteHits(c, id) THEN 1 ELSE 0]
  /\ UNCHANGED <<restVars, accounts, books, orders, nextOrderId, checkoutVars>>

\* supabase.from("profiles").select("*") by caller c
apiProfilesSelect(c) ==
  /\ last' = [op |-> "profiles.select", caller |-> c, rows |-> ProfilesSelect(c)]
  /\ UNCHANGED <<restVars, storeVars, checkoutVars>>

ProfilesNext ==
  \/ \E c \in Callers, id \in Users, name \in Names : apiProfilesInsert(c, id, name)
  \/ \E c \in Callers, id \in Users, newId \in Users, name \in Names :
       apiProfilesUpdate(c, id, newId, name)
  \/ \E c \in Callers, id \in Users : apiProfilesDelete(c, id)
  \/ \E c \in Callers : apiProfilesSelect(c)

ProfilesSpec == InitProfiles /\ [][ProfilesNext]_vars

\* ------------------------------------------------------- account creation
\* signup metadata: options.data of auth.signUp, with or without a full_name
Metas == {[full_name |-> n] : n \in Names} \cup {[avatar |-> "x"]}

handle_new_user_unattached(new) == profiles

\* the trigger function run AFTER INSERT ON auth.users, SECURITY DEFINER (no
\* policy applies): INSERT INTO profiles (id, full_name)
\* VALUES (NEW.id, NEW.raw_user_meta_data->>'full_name')
handle_new_user(new) ==
  [id \in DOMAIN profiles \cup {new.id} |->
     IF id = new.id
     THEN [full_name |-> IF "full_name" \in DOMAIN new.raw_user_meta_data
                         THEN new.raw_user_meta_data.full_name ELSE NULL]
     ELSE profiles[id]]

\* the tables with two accounts; u3 has not signed up
InitSignup ==
  /\ accounts = {"u1", "u2"}
  /\ profiles = [u \in {"u1", "u2"} |-> [full_name |-> "n"]]
  /\ books = [b \in {"b1"} |-> BookRow("u1", "sell", Some(200), Some(1))]
  /\ orders = {}
  /\ nextOrderId = 1
  /\ last = [op |-> "none"]
  /\ NoCheckout
  /\ InitRest

\* a new row of auth.users with a fresh id; on_auth_user_created fires
signUp(u, meta) ==
  /\ u \notin accounts
  /\ accounts' = accounts \cup {u}
  /\ profiles' = handle_new_user([id |-> u, raw_user_meta_data |-> meta])
  /\ last' = [op |-> "signUp", id |-> u, meta |-> meta, was |-> profiles]
  /\ UNCHANGED <<restVars, books, orders, nextOrderId, checkoutVars>>

\* a row of auth.users is removed (by the platform's administrator); the
\* foreign keys cascade: profiles.id, books.user_id, orders.book_id
deleteAccount(u) ==
  /\ u \in accounts
  /\ accounts' = accounts \ {u}
  /\ profiles' = [id \in DOMAIN profiles \ {u} |-> profiles[id]]
  /\ books' = [b \in {x \in DOMAIN books : books[x].user_id # u} |-> books[b]]
  /\ orders' = {o \in orders : o.book_id \in DOMAIN books'}
  /\ last' = [op |-> "deleteAccount", id |-> u, was |-> profiles]
  /\ UNCHANGED <<restVars, nextOrderId, checkoutVars>>

SignupNext ==
  \/ \E u \in Users, meta \in Metas : signUp(u, meta)
  \/ \E u \in Users : deleteAccount(u)
  \/ \E c \in Callers, id \in Users, name \in Names : apiProfilesInsert(c, id, name)
  \/ \E c \in Callers, id \in Users, newId \in Users, name \in Names :
       apiProfilesUpdate(c, id, newId, name)
  \/ \E c \in Callers, id \in Users : apiProfilesDelete(c, id)

SignupSpec == InitSignup /\ [][SignupNext]_vars

\* the requests that reach the orders table: those sent to it, and those
\* sent to books that it depends on
OrdersNext ==
  \/ \E c \in ApiCallers, row \in ApiOrderRows : apiOrdersInsert(c, row)
  \/ \E c \in ApiCallers : apiOrdersSelect(c)
  \/ \E c \in ApiCallers, id \in 1..MaxOrders, patch \in ApiOrderPatches :
       apiOrdersUpdate(c, id, patch)
  \/ \E c \in ApiCallers, id \in 1..MaxOrders : apiOrdersDelete(c, id)
  \/ \E c \in ApiCallers, id \in BookIds : apiBooksDelete(c, id)
  \/ \E c \in ApiCallers, id \in BookIds, u \in ApiUsers :
       apiBooksUpdate(c, id, [user_id |-> u])

OrdersSpec == InitApi /\ [][OrdersNext]_vars

\* rows coming and going: books listed and deleted by their owners, orders
\* placed on them, accounts removed (the order ids generated stay within
\* MaxOrders)
CascadeNext ==
  \/ \E row \in ApiOrderRows :
       nextOrderId <= MaxOrders /\ apiOrdersInsert(row.buyer_id, row)
  \/ \E c \in ApiUsers, id \in BookIds : apiBooksDelete(c, id)
  \/ \E c \in ApiUsers, id \in BookIds :
       apiBooksInsert(c, id, BookRow(c, "sell", Some(200), Some(1)))
  \/ \E u \in ApiUsers : deleteAccount(u)

CascadeSpec == InitApi /\ [][CascadeNext]_vars

\* ---------------------------------------------------------------- the chat
MaxMessages == 2     \* message rows the store holds at most in ChatSpec
MaxStored == 3       \* message rows the store holds at most

ConvIds == {"c1", "c2"}
\* what the user types, as a sequence of characters
Drafts == {<<>>, <<" ">>, <<" ", "a", " ">>}

trimStart(s) ==
  LET RECURSIVE TrimStart(_)
      TrimStart(x) == IF x # <<>> /\ Head(x) = " " THEN TrimStart(Tail(x)) ELSE x
  IN TrimStart(s)

\* String.prototype.trim: whitespace removed from both ends
trim(s) ==
  LET RECURSIVE TrimStart(_), TrimEnd(_)
      TrimStart(x) == IF x # <<>> /\ Head(x) = " " THEN TrimStart(Tail(x)) ELSE x
      TrimEnd(x) == IF x # <<>> /\ x[Len(x)] = " "
                    THEN TrimEnd(SubSeq(x, 1, Len(x) - 1)) ELSE x
  IN TrimEnd(TrimStart(s))

\* messages(id PK, conversation_id, sender_id, content, read DEFAULT false,
\* created_at): the row stored for an insert of new at store time t
MessageRow(new, t) ==
  [id |-> Cardinality(messages) + 1, conversation_id |-> new.conversation_id,
   sender_id |-> new.sender_id, content |-> new.content, read |-> FALSE,
   created_at |-> t]

MarkedReadToggle(table, conversationId, userId) ==
  {IF m.conversation_id = conversationId /\ m.sender_id # userId
   THEN [m EXCEPT !.read = ~m.read] ELSE m : m \in table}

MarkedReadAnySender(table, conversationId, userId) ==
  {IF m.conversation_id = conversationId /\ m.read = FALSE
   THEN [m EXCEPT !.read = TRUE] ELSE m : m \in table}

\* .update({ read: true }).eq("conversation_id", conversationId)
\*   .neq("sender_id", userId).eq("read", false), applied to table
MarkedRead(table, conversationId, userId) ==
  {IF m.conversation_id = conversationId /\ m.sender_id # userId /\ m.read = FALSE
   THEN [m EXCEPT !.read = TRUE] ELSE m : m \in table}

MessagesSelectNewestFirst(id) ==
  LET rows == {m \in messages : m.conversation_id = id}
      n == Cardinality(rows)
  IN {s \in [1..n -> rows] :
        /\ \A i, j \in 1..n : i # j => s[i] # s[j]
        /\ \A i \in 1..(n - 1) : s[i].created_at >= s[i + 1].created_at}

\* .select("*").eq("conversation_id", id).order("created_at", { ascending:
\* true }): every answer the store can give (rows with equal created_at come
\* in either order)
MessagesSelect(id) ==
  LET rows == {m \in messages : m.conversation_id = id}
      n == Cardinality(rows)
  IN {s \in [1..n -> rows] :
        /\ \A i, j \in 1..n : i # j => s[i] # s[j]
        /\ \A i \in 1..(n - 1) : s[i].created_at <= s[i + 1].created_at}

\* the channel of client k's Chat page receives the inserts of conversation c
Subscribed(k, c) == c \in chat[k].channels

\* supabase.removeChannel(channel) without effect
removeChannelKept(chs, c) == chs
\* the effect's cleanup: supabase.removeChannel(channel)
removeChannel(chs, c) == chs \ {c}

\* the form is rendered once loading is false
FormShown(k) == chat[k].pc \in {"fetchMessages", "markMessagesAsRead", "idle"}

\* two conversations about b1, no message yet.  Client 1 is the seller u1
\* or a visitor without a session and runs the Chat page; the buyers u2 and
\* u3 run the same page elsewhere and appear here by the requests it sends
InitChat ==
  /\ accounts = Users
  /\ profiles = [u \in Users |-> [full_name |-> "n"]]
  /\ books = [b \in {"b1"} |-> BookRow("u1", "sell", Some(200), Some(1))]
  /\ orders = {}
  /\ nextOrderId = 1
  /\ last = [op |-> "none"]
  /\ session \in {<<"u1", NoUser>>, <<NoUser, NoUser>>}
  /\ route = [k \in Clients |-> "browse"]
  /\ pc = [k \in Clients |-> "idle"]
  /\ book = [k \in Clients |-> Unset]
  /\ quantity = [k \in Clients |-> 1]
  /\ loading = [k \in Clients |-> FALSE]
  /\ sub = [k \in Clients |-> Unset]
  /\ conversations =
       {[id |-> "c1", book_id |-> "b1", buyer_id |-> "u2", seller_id |-> "u1"],
        [id |-> "c2", book_id |-> "b1", buyer_id |-> "u3", seller_id |-> "u1"]}
  /\ messages = {}
  /\ clock = 0
  /\ chat = [k \in Clients |-> ChatClosed]
  /\ objects = {}
  /\ addBook = [k \in Clients |-> AddBookClosed]
  /\ myBooks = [k \in Clients |-> MyBooksClosed]

chatFrame == <<storeVars, session, pc, book, quantity, loading, sub,
               conversations, objects, addBook, myBooks>>

\* the route /chat/:conversationId is opened: the component mounts, both
\* effects run (init() starts, the channel is subscribed)
openChat(k, c) ==
  /\ chat[k].pc \in {"closed", "auth"}
  /\ chat' = [chat EXCEPT ![k] = [ChatClosed EXCEPT !.conversationId = c,
                                                    !.channels = {c},
                                                    !.pc = "getSession"]]
  /\ route' = [route EXCEPT ![k] = "chat"]
  /\ UNCHANGED <<chatFrame, last, messages, clock>>

\* init, first part: getSession; without a session navigate("/auth") and return
initSession(k) ==
  /\ chat[k].pc = "getSession"
  /\ IF session[k] = NoUser
     THEN /\ chat' = [chat EXCEPT ![k] =
               [ChatClosed EXCEPT
                  !.pc = "auth",
                  !.channels = removeChannel(chat[k].channels,
                                             chat[k].conversationId)]]
          /\ route' = [route EXCEPT ![k] = "auth"]
     ELSE /\ chat' = [chat EXCEPT ![k].currentUser = [id |-> session[k]],
                                  ![k].pc = "fetchConversation"]
          /\ route' = route
  /\ UNCHANGED <<chatFrame, last, messages, clock>>

\* fetchConversation(conversationId, session.user.id): the conversation and
\* the other party's profile are read for the page header (not kept here);
\* found or not, finally setLoading(false)
fetchConversation(k) ==
  /\ chat[k].pc = "fetchConversation"
  /\ chat' = [chat EXCEPT ![k].loading = FALSE,
                          ![k].calls = @ \cup {"conversations.select"},
                          ![k].pc = "fetchMessages"]
  /\ UNCHANGED <<chatFrame, route, last, messages, clock>>

\* fetchMessages(conversationId)
fetchMessages(k, net) ==
  /\ chat[k].pc = "fetchMessages"
  /\ \E data \in MessagesSelect(chat[k].conversationId) :
       chat' = [chat EXCEPT
                  ![k].messages = IF net = "ok" THEN data ELSE @,
                  ![k].log = IF net = "ok" THEN @ ELSE @ \cup {"Error fetching messages:"},
                  ![k].calls = @ \cup {"messages.select"},
                  ![k].pc = "markMessagesAsRead"]
  /\ UNCHANGED <<chatFrame, route, last, messages, clock>>

\* markMessagesAsRead(conversationId, session.user.id)
markMessagesAsRead(k, net) ==
  /\ chat[k].pc = "markMessagesAsRead"
  /\ messages' = IF net = "ok"
                 THEN MarkedRead(messages, chat[k].conversationId, session[k])
                 ELSE messages
  /\ chat' = [chat EXCEPT ![k].calls = @ \cup {"messages.update"},
                          ![k].pc = "idle"]
  /\ last' = [op |-> "messages.update", conv |-> chat[k].conversationId,
              caller |-> session[k], error |-> net,
              count |-> Cardinality(messages' \ messages),
              again |-> /\ last.op = "messages.update" /\ last.error = "ok"
                        /\ last.conv = chat[k].conversationId
                        /\ last.caller = session[k]]
  /\ UNCHANGED <<chatFrame, route, clock>>

\* the input's onChange: setNewMessage(e.target.value)
setNewMessage(k, d) ==
  /\ FormShown(k)
  /\ chat[k].send = Unset
  /\ chat' = [chat EXCEPT ![k].newMessage = d, ![k].submit = Unset]
  /\ UNCHANGED <<chatFrame, route, last, messages, clock>>

\* sendMessage up to its await: the guard, then the insert request is issued
sendMessage(k) ==
  /\ FormShown(k)
  /\ chat[k].send = Unset
  /\ LET go == ~(trim(chat[k].newMessage) = <<>> \/ chat[k].conversationId = NULL
                   \/ chat[k].currentUser = Unset)
     IN chat' = [chat EXCEPT
                   ![k].submit = [draft |-> chat[k].newMessage, issued |-> go],
                   ![k].send = IF go
                               THEN [conversation_id |-> chat[k].conversationId,
                                     sender_id |-> chat[k].currentUser.id,
                                     content |-> trim(chat[k].newMessage)]
                               ELSE Unset]
  /\ UNCHANGED <<chatFrame, route, last, messages, clock>>

\* the store executes the insert (or the request fails) and sendMessage
\* resumes: setNewMessage("") on success; every subscribed channel of the
\* conversation is notified of the new row
insertMessage(k, net) ==
  /\ chat[k].send # Unset
  /\ Cardinality(messages) < MaxMessages
  /\ LET row == MessageRow(chat[k].send, clock + 1)
     IN IF net = "ok"
        THEN /\ messages' = messages \cup {row}
             /\ clock' = clock + 1
             /\ chat' = [j \in Clients |->
                  [chat[j] EXCEPT
                     !.inbox = IF Subscribed(j, row.conversation_id)
                               THEN Append(@, row) ELSE @,
                     !.send = IF j = k THEN Unset ELSE @,
                     !.submit = IF j = k THEN Unset ELSE @,
                     !.newMessage = IF j = k THEN <<>> ELSE @]]
             /\ last' = [op |-> "messages.insert"]
        ELSE /\ UNCHANGED <<messages, clock, last>>
             /\ chat' = [chat EXCEPT
                           ![k].send = Unset, ![k].submit = Unset,
                           ![k].log = @ \cup {"Error sending message:"}]
  /\ UNCHANGED <<chatFrame, route>>

\* the channel's callback: setMessages(prev => [...prev, payload.new])
receive(k) ==
  /\ chat[k].inbox # <<>>
  /\ chat[k].pc \notin {"closed", "auth"}
  /\ chat' = [chat EXCEPT ![k].messages = Append(@, Head(chat[k].inbox)),
                          ![k].inbox = Tail(@)]
  /\ UNCHANGED <<chatFrame, route, last, messages, clock>>

\* the user leaves the page once init has finished: the component unmounts
\* and the effect's cleanup removes the channel
closeChat(k) ==
  /\ chat[k].pc = "idle"
  /\ chat[k].send = Unset
  /\ chat' = [chat EXCEPT ![k] =
       [ChatClosed EXCEPT
          !.channels = removeChannel(chat[k].channels, chat[k].conversationId)]]
  /\ route' = [route EXCEPT ![k] = "browse"]
  /\ UNCHANGED <<chatFrame, last, messages, clock>>

\* the route changes to /chat/c while the page, its init finished, stays
\* mounted: the component state is kept, the effects on conversationId run
\* again (cleanup of the old channel, a new channel, init() once more);
\* notifications of a removed channel are not delivered any more
changeConversation(k, c) ==
  /\ chat[k].pc = "idle"
  /\ chat[k].send = Unset
  /\ c # chat[k].conversationId
  /\ LET chs == removeChannel(chat[k].channels, chat[k].conversationId) \cup {c}
     IN chat' = [chat EXCEPT
                   ![k].conversationId = c,
                   ![k].channels = chs,
                   ![k].inbox = SelectSeq(@, LAMBDA row : row.conversation_id \in chs),
                   ![k].pc = "getSession"]
  /\ UNCHANGED <<chatFrame, route, last, messages, clock>>

\* another Chat page, of party u of conversation c, seen from the store: the
\* insert that its sendMessage sends for a draft whose trimmed text is "a".
\* The store stamps it t: its clock has advanced, or not (equal created_at)
peerSend(u, c, t) ==
  /\ Cardinality(messages) < MaxStored
  /\ LET row == MessageRow([conversation_id |-> c.id, sender_id |-> u,
                            content |-> trim(<<"a", " ">>)], t)
     IN /\ messages' = messages \cup {row}
        /\ chat' = [j \in Clients |->
                     [chat[j] EXCEPT !.inbox = IF Subscribed(j, c.id)
                                              THEN Append(@, row) ELSE @]]
  /\ clock' = t
  /\ last' = [op |-> "messages.insert"]
  /\ UNCHANGED <<chatFrame, route>>

\* another Chat page, of party u of conversation c: the update that its
\* markMessagesAsRead sends
peerMarkRead(u, c) ==
  /\ messages' = MarkedRead(messages, c.id, u)
  /\ last' = [op |-> "messages.update", conv |-> c.id, caller |-> u,
              error |-> "ok", count |-> Cardinality(messages' \ messages),
              again |-> /\ last.op = "messages.update" /\ last.error = "ok"
                        /\ last.conv = c.id /\ last.caller = u]
  /\ UNCHANGED <<chatFrame, route, chat, clock>>

\* the seller's Chat page (typing, sending, receiving) and the buyers' requests
ChatNext ==
  \/ \E c \in ConvIds : openChat(1, c)
  \/ initSession(1)
  \/ fetchConversation(1)
  \/ \E net \in Net : fetchMessages(1, net)
  \/ \E net \in Net : markMessagesAsRead(1, net)
  \/ \E d \in Drafts : setNewMessage(1, d)
  \/ sendMessage(1)
  \/ \E net \in Net : insertMessage(1, net)
  \/ receive(1)
  \/ \E c \in conversations :
       Cardinality(messages) < MaxMessages /\ peerSend(c.buyer_id, c, clock + 1)
  \/ \E c \in conversations : peerMarkRead(c.buyer_id, c)

ChatSpec == InitChat /\ [][ChatNext]_vars

\* the seller's Chat page opened and left again and again, never typed in,
\* while both parties of c1 and the buyer of c2 send from other pages
FeedNext ==
  \/ \E c \in ConvIds : openChat(1, c)
  \/ initSession(1)
  \/ fetchConversation(1)
  \/ \E net \in Net : fetchMessages(1, net)
  \/ \E net \in Net : markMessagesAsRead(1, net)
  \/ closeChat(1)
  \/ receive(1)
  \/ \E c \in conversations, u \in {"u1", "u2", "u3"}, t \in {clock, clock + 1} :
       /\ u = c.buyer_id \/ (u = c.seller_id /\ c.id = "c1")
       /\ t > 0
       /\ peerSend(u, c, t)

FeedSpec == InitChat /\ [][FeedNext]_vars

\* the seller's Chat page taken from one conversation to the other while the
\* buyers send from other pages
SwitchNext ==
  \/ \E c \in ConvIds : openChat(1, c)
  \/ initSession(1)
  \/ fetchConversation(1)
  \/ \E net \in Net : fetchMessages(1, net)
  \/ \E net \in Net : markMessagesAsRead(1, net)
  \/ closeChat(1)
  \/ \E c \in ConvIds : changeConversation(1, c)
  \/ receive(1)
  \/ \E c \in conversations :
       Cardinality(messages) < MaxMessages /\ peerSend(c.buyer_id, c, clock + 1)

SwitchSpec == InitChat /\ [][SwitchNext]_vars

\* ------------------------------------------------------- object storage
Buckets == {"book-images", "avatars"}
ObjectNames == {"f1"}
Datas == {"d1", "d2"}                 \* file contents

\* auth.role(): 'authenticated' with a session, 'anon' without
AuthRole(c) == IF c = NoUser THEN "anon" ELSE "authenticated"

\* FOR SELECT USING (bucket_id = 'book-images'), ... (bucket_id = 'avatars')
StorageSelectPolicy(c, row) ==
  row.bucket_id = "book-images" \/ row.bucket_id = "avatars"

StorageWritePolicyOwnerOnly(c, row) ==
  /\ row.bucket_id = "book-images" \/ row.bucket_id = "avatars"
  /\ SqlEq(AuthUid(c), row.owner)

\* FOR INSERT WITH CHECK / FOR UPDATE USING / FOR DELETE USING
\* (bucket_id = 'book-images' AND auth.role() = 'authenticated'), and the
\* same for 'avatars'
StorageWritePolicy(c, row) ==
  \/ row.bucket_id = "book-images" /\ AuthRole(c) = "authenticated"
  \/ row.bucket_id = "avatars" /\ AuthRole(c) = "authenticated"

\* storage.from(bucket).upload(name, data) by caller c: the error, or "none"
StorageUploadError(c, bucket, name) ==
  IF ~StorageWritePolicy(c, [bucket_id |-> bucket, name |-> name, owner |-> AuthUid(c)])
  THEN "rls"
  ELSE IF \E o \in objects : o.bucket_id = bucket /\ o.name = name
       THEN "duplicate" ELSE "none"

ObjectsAfterUpload(c, bucket, name, data) ==
  IF StorageUploadError(c, bucket, name) = "none"
  THEN objects \cup {[bucket_id |-> bucket, name |-> name, owner |-> AuthUid(c),
                      data |-> data]}
  ELSE objects

\* the objects an update or remove of (bucket, name) by caller c touches
StorageHits(c, bucket, name) ==
  {o \in objects : o.bucket_id = bucket /\ o.name = name /\ StorageWritePolicy(c, o)}

\* storage.from(bucket).upload(name, data) by caller c
apiStorageUpload(c, bucket, name, data) ==
  /\ objects' = ObjectsAfterUpload(c, bucket, name, data)
  /\ last' = [op |-> "storage.upload", caller |-> c, bucket |-> bucket,
              name |-> name, data |-> data, was |-> objects,
              error |-> StorageUploadError(c, bucket, name)]
  /\ UNCHANGED <<storeVars, checkoutVars, conversations, messages, clock, chat, addBook, myBooks>>

\* storage.from(bucket).update(name, data) by caller c
apiStorageUpdate(c, bucket, name, data) ==
  /\ objects' = (objects \ StorageHits(c, bucket, name))
                  \cup {[o EXCEPT !.data = data] : o \in StorageHits(c, bucket, name)}
  /\ last' = [op |-> "storage.update", caller |-> c, bucket |-> bucket,
              name |-> name, data |-> data, was |-> objects,
              error |-> IF StorageHits(c, bucket, name) = {} THEN "not_found"
                        ELSE "none"]
  /\ UNCHANGED <<storeVars, checkoutVars, conversations, messages, clock, chat, addBook, myBooks>>

\* storage.from(bucket).remove([name]) by caller c
apiStorageRemove(c, bucket, name) ==
  /\ objects' = objects \ StorageHits(c, bucket, name)
  /\ last' = [op |-> "storage.remove", caller |-> c, bucket |-> bucket,
              name |-> name, was |-> objects,
              count |-> Cardinality(StorageHits(c, bucket, name))]
  /\ UNCHANGED <<storeVars, checkoutVars, conversations, messages, clock, chat, addBook, myBooks>>

\* storage.from(bucket).download(name) by caller c
apiStorageDownload(c, bucket, name) ==
  /\ last' = [op |-> "storage.download", caller |-> c, bucket |-> bucket,
              name |-> name, was |-> objects,
              rows |-> {o \in objects : /\ o.bucket_id = bucket /\ o.name = name
                                        /\ StorageSelectPolicy(c, o)}]
  /\ UNCHANGED <<storeVars, checkoutVars, restVars>>

StorageNext ==
  \/ \E c \in ApiCallers, b \in Buckets, n \in ObjectNames, d \in Datas :
       apiStorageUpload(c, b, n, d)
  \/ \E c \in ApiCallers, b \in Buckets, n \in ObjectNames, d \in Datas :
       apiStorageUpdate(c, b, n, d)
  \/ \E c \in ApiCallers, b \in Buckets, n \in ObjectNames : apiStorageRemove(c, b, n)
  \/ \E c \in ApiCallers, b \in Buckets, n \in ObjectNames : apiStorageDownload(c, b, n)

StorageSpec == InitApi /\ [][StorageNext]_vars

\* ------------------------------------------------------------- AddBook
\* the AddBook page is opened and its form filled in: a mode, a price field
\* (empty or 200) and, or not, an image
openAddBook(k, mode, price, image) ==
  /\ addBook[k].pc \in {"closed", "done"}
  /\ addBook' = [addBook EXCEPT ![k] =
       [AddBookClosed EXCEPT !.pc = "idle", !.mode = mode, !.price = price,
                             !.imageFile = image]]
  /\ route' = [route EXCEPT ![k] = "add-book"]
  /\ UNCHANGED <<storeVars, last, session, pc, book, quantity, loading, sub,
                 conversations, messages, clock, chat, objects, myBooks>>

\* AddBook.handleSubmit up to its first store request: setLoading(true),
\* getSession; without a session navigate("/auth"), return, and finally
\* setLoading(false)
addBookSubmit(k) ==
  /\ addBook[k].pc = "idle" /\ route[k] = "add-book"
  /\ IF session[k] = NoUser
     THEN /\ addBook' = [addBook EXCEPT ![k].pc = "done", ![k].loading = FALSE,
                                        ![k].outcome = "auth"]
          /\ route' = [route EXCEPT ![k] = "auth"]
     ELSE /\ addBook' = [addBook EXCEPT
                           ![k].pc = IF addBook[k].imageFile THEN "upload" ELSE "insert",
                           ![k].loading = TRUE]
          /\ route' = route
  /\ UNCHANGED <<storeVars, last, session, pc, book, quantity, loading, sub,
                 conversations, messages, clock, chat, objects, myBooks>>

\* storage.from('book-images').upload(filePath, imageFile) under a fresh
\* name; if (uploadError) throw
addBookUpload(k, net) ==
  /\ addBook[k].pc = "upload"
  /\ \E n \in ObjectNames :
       /\ \A o \in objects : ~(o.bucket_id = "book-images" /\ o.name = n)
       /\ LET err == IF net = "fail" THEN "network"
                     ELSE StorageUploadError(session[k], "book-images", n)
          IN /\ objects' = IF net = "ok"
                           THEN ObjectsAfterUpload(session[k], "book-images", n, "d1")
                           ELSE objects
             /\ addBook' = [addBook EXCEPT
                  ![k].calls = @ \cup {"storage.upload"},
                  ![k].pc = IF err = "none" THEN "insert" ELSE "done",
                  ![k].loading = err = "none",
                  ![k].outcome = IF err = "none" THEN @ ELSE "error"]
  /\ UNCHANGED <<storeVars, last, checkoutVars, conversations, messages, clock, chat,
                 myBooks>>

\* the price sent as typed
InsertPriceAsTyped(mode, price) == price
\* price: formData.mode === "sell" ? parseFloat(formData.price) : null
InsertPrice(mode, price) == IF mode = "sell" THEN price ELSE None

\* supabase.from("books").insert([{..., price: mode === "sell" ?
\* parseFloat(price) : null, user_id: session.user.id}]) and the rest of the
\* handler; available_copies takes its default 1
addBookInsert(k, net) ==
  /\ addBook[k].pc = "insert"
  /\ \E id \in BookIds \ DOMAIN books :
       LET row == BookRow(session[k], addBook[k].mode,
                          InsertPrice(addBook[k].mode, addBook[k].price),
                          Some(1))
           err == IF net = "fail" THEN "network" ELSE BooksInsertError(session[k], row)
       IN /\ books' = IF net = "ok" THEN BooksAfterInsert(session[k], id, row)
                      ELSE books
          /\ addBook' = [addBook EXCEPT
               ![k].calls = @ \cup {"books.insert"},
               ![k].sent = row,
               ![k].pc = "done",
               ![k].loading = FALSE,
               ![k].outcome = IF err = "none" THEN "added" ELSE "error"]
          /\ route' = [route EXCEPT ![k] = IF err = "none" THEN "my-books" ELSE @]
  /\ UNCHANGED <<accounts, profiles, orders, nextOrderId, last, session, pc, book,
                 quantity, loading, sub, conversations, messages, clock, chat, objects,
                 myBooks>>

\* ---------------------------------------------------------- MyBooks page
\* u1 has listed b1, and u1 or u2 has listed b2; client 1 is u1 or a visitor
\* without a session
InitMyBooks ==
  /\ accounts = Users
  /\ profiles = [u \in Users |-> [full_name |-> "n"]]
  /\ \E u \in ApiUsers :
       books = [b \in BookIds |->
                  BookRow(IF b = "b1" THEN "u1" ELSE u, "sell", Some(200), Some(1))]
  /\ orders = {}
  /\ nextOrderId = 1
  /\ last = [op |-> "none"]
  /\ session \in {<<"u1", NoUser>>, <<NoUser, NoUser>>}
  /\ route = [k \in Clients |-> "browse"]
  /\ pc = [k \in Clients |-> "idle"]
  /\ book = [k \in Clients |-> Unset]
  /\ quantity = [k \in Clients |-> 1]
  /\ loading = [k \in Clients |-> FALSE]
  /\ sub = [k \in Clients |-> Unset]
  /\ InitRest

myBooksFrame == <<accounts, profiles, nextOrderId, last, session, pc, book, quantity,
                  loading, sub, conversations, messages, clock, chat, objects, addBook>>

\* the page mounts: checkAuth; without a session navigate("/auth") and return
checkAuth(k) ==
  /\ myBooks[k].pc = "closed"
  /\ IF session[k] = NoUser
     THEN /\ route' = [route EXCEPT ![k] = "auth"]
          /\ myBooks' = myBooks
     ELSE /\ route' = [route EXCEPT ![k] = "my-books"]
          /\ myBooks' = [myBooks EXCEPT ![k] = [MyBooksClosed EXCEPT !.pc = "fetch"]]
  /\ route' # route \/ myBooks' # myBooks
  /\ UNCHANGED <<myBooksFrame, books, orders>>

\* fetchMyBooks(session.user.id): select * from books where user_id = userId
fetchMyBooks(k, net) ==
  /\ myBooks[k].pc = "fetch"
  /\ myBooks' = [myBooks EXCEPT
       ![k].books = IF net = "ok"
                    THEN {b \in BooksSelect(session[k]) : books[b].user_id = session[k]}
                    ELSE @,
       ![k].log = IF net = "ok" THEN @ ELSE @ \cup {"Error fetching books:"},
       ![k].loading = FALSE,
       ![k].pc = "idle"]
  /\ UNCHANGED <<myBooksFrame, route, books, orders>>

\* handleDelete(bookId) up to its await, the user having confirmed: the
\* delete request is issued; the handler keeps the books of the render it
\* was created in
handleDelete(k, b) ==
  /\ myBooks[k].pc = "idle"
  /\ b \in myBooks[k].books
  /\ \A d \in myBooks[k].deletes : d.bookId # b
  /\ myBooks' = [myBooks EXCEPT
       ![k].deletes = @ \cup {[bookId |-> b, books |-> myBooks[k].books]}]
  /\ UNCHANGED <<myBooksFrame, route, books, orders>>

\* the list handleDelete sets on success: its own books without bookId
BooksFiltered(d, current) == d.books \ {d.bookId}

\* the store executes the delete (or the request fails) and handleDelete
\* resumes: setBooks(books.filter(...)) on success, the list untouched on
\* an error
deleteBook(k, d, net) ==
  /\ d \in myBooks[k].deletes
  /\ books' = IF net = "ok" THEN BooksAfterDelete(session[k], d.bookId) ELSE books
  /\ orders' = IF net = "ok" THEN OrdersAfterBookDelete(session[k], d.bookId)
                ELSE orders
  /\ myBooks' = [myBooks EXCEPT
       ![k].deletes = @ \ {d},
       ![k].books = IF net = "ok" THEN BooksFiltered(d, @) ELSE @,
       ![k].gone = IF net = "ok" THEN @ \cup {d.bookId} ELSE @,
       ![k].log = IF net = "ok" THEN @ ELSE @ \cup {"Error deleting book:"}]
  /\ UNCHANGED <<myBooksFrame, route>>

\* the page, no request of it running, is left: the component unmounts
closeMyBooks(k) ==
  /\ myBooks[k].pc = "idle" /\ myBooks[k].deletes = {}
  /\ myBooks' = [myBooks EXCEPT ![k] = MyBooksClosed]
  /\ route' = [route EXCEPT ![k] = "browse"]
  /\ UNCHANGED <<myBooksFrame, books, orders>>

MyBooksNext ==
  \/ checkAuth(1)
  \/ \E net \in Net : fetchMyBooks(1, net)
  \/ \E b \in BookIds : handleDelete(1, b)
  \/ \E d \in myBooks[1].deletes, net \in Net : deleteBook(1, d, net)
  \/ closeMyBooks(1)
  \/ \E c \in ApiUsers, id \in BookIds : apiBooksDelete(c, id)

MyBooksSpec == InitMyBooks /\ [][MyBooksNext]_vars

\* ------------------------------------------- one browser, the three pages
\* one listing and two conversations stored; client 1 is the buyer u2 or a
\* visitor without a session, and no page is open
InitPages ==
  /\ accounts = Users
  /\ profiles = [u \in Users |-> [full_name |-> "n"]]
  /\ books = [b \in {"b1"} |-> BookRow("u1", "sell", Some(200), Some(1))]
  /\ orders = {}
  /\ nextOrderId = 1
  /\ last = [op |-> "none"]
  /\ session \in {<<"u2", NoUser>>, <<NoUser, NoUser>>}
  /\ route = [k \in Clients |-> "browse"]
  /\ pc = [k \in Clients |-> "idle"]
  /\ book = [k \in Clients |-> Unset]
  /\ quantity = [k \in Clients |-> 1]
  /\ loading = [k \in Clients |-> FALSE]
  /\ sub = [k \in Clients |-> Unset]
  /\ conversations =
       {[id |-> "c1", book_id |-> "b1", buyer_id |-> "u2", seller_id |-> "u1"],
        [id |-> "c2", book_id |-> "b1", buyer_id |-> "u3", seller_id |-> "u1"]}
  /\ messages = {}
  /\ clock = 0
  /\ chat = [k \in Clients |-> ChatClosed]
  /\ objects = {}
  /\ addBook = [k \in Clients |-> AddBookClosed]
  /\ myBooks = [k \in Clients |-> MyBooksClosed]

\* no page of client k is mounted
Unmounted(k) ==
  /\ route[k] \in {"browse", "auth", "my-books"}
  /\ pc[k] = "idle" /\ book[k] = Unset /\ quantity[k] = 1 /\ sub[k] = Unset
  /\ chat[k] = ChatClosed
  /\ addBook[k] = AddBookClosed

\* the page of client k, none of its handlers running, is left (or has left by
\* itself) and unmounts: its state is discarded
leave(k) ==
  /\ ~Unmounted(k)
  /\ pc[k] \in {"idle", "done"}
  /\ addBook[k].pc \in {"closed", "idle", "done"}
  /\ chat[k].pc \in {"closed", "idle", "auth"} /\ chat[k].send = Unset
  /\ route' = [route EXCEPT ![k] = IF @ \in {"auth", "my-books"} THEN @ ELSE "browse"]
  /\ pc' = [pc EXCEPT ![k] = "idle"]
  /\ book' = [book EXCEPT ![k] = Unset]
  /\ quantity' = [quantity EXCEPT ![k] = 1]
  /\ loading' = [loading EXCEPT ![k] = FALSE]
  /\ sub' = [sub EXCEPT ![k] = Unset]
  /\ chat' = [chat EXCEPT ![k] = ChatClosed]
  /\ addBook' = [addBook EXCEPT ![k] = AddBookClosed]
  /\ UNCHANGED <<storeVars, last, session, conversations, messages, clock, objects,
                 myBooks>>

PagesNext ==
  \/ Unmounted(1) /\ openCheckout(1)
  \/ \E b \in BookIds : fetchBook(1, b)
  \/ \E v \in Typed : setQuantity(1, v)
  \/ handleSubmit(1)
  \/ insertOrder(1)
  \/ updateCopies(1)
  \/ settle(1)
  \/ \E mode \in Modes, price \in {None, Some(200)}, image \in BOOLEAN :
       Unmounted(1) /\ openAddBook(1, mode, price, image)
  \/ addBookSubmit(1)
  \/ \E net \in Net : addBookUpload(1, net)
  \/ \E net \in Net : addBookInsert(1, net)
  \/ \E c \in ConvIds : Unmounted(1) /\ openChat(1, c)
  \/ initSession(1)
  \/ fetchConversation(1)
  \/ \E net \in Net : fetchMessages(1, net)
  \/ \E net \in Net : markMessagesAsRead(1, net)
  \/ leave(1)

PagesSpec == InitPages /\ [][PagesNext]_vars

\* ------------------------------------------------------ claims on Checkout
\* client k's handleSubmit has run to its end
Done(k) == pc[k] = "done" /\ sub[k] # Unset

\* the book row a submission loaded is the stored row when it is submitted
Fresh(s) ==
  /\ s.book.id \in DOMAIN s.preBooks
  /\ s.preBooks[s.book.id].available_copies = s.book.available_copies
  /\ s.preBooks[s.book.id].price = s.book.price

\* a submission by a signed-in buyer for 1 <= q <= a copies of a priced book,
\* placed with no other client acting in between
SoloPurchase(k) ==
  /\ Done(k) /\ sub[k].outcome = "placed" /\ sub[k].solo
  /\ Fresh(sub[k]) /\ sub[k].book.price # None
  /\ 1 <= sub[k].quantity /\ sub[k].quantity <= The(sub[k].book.available_copies)

\* C1: after a buyer's undisturbed submission for q of a copies at price p the
\* store holds exactly one new order row (buyer = caller, total = p * q,
\* pending, cod) and the book's available_copies is a - q.
C1_EndToEndPurchase ==
  \A k \in Clients :
    SoloPurchase(k) =>
      LET s == sub[k] IN
      /\ \E o \in orders :
           /\ o \notin s.preOrders /\ orders = s.preOrders \cup {o}
           /\ o.buyer_id = s.uid
           /\ o.total_price = Some(The(s.book.price) * s.quantity)
           /\ o.status = "pending" /\ o.payment_method = "cod"
      /\ books[s.book.id].available_copies
           = Some(The(s.book.available_copies) - s.quantity)

\* the oversell race has run to its end: two buyers loaded the book with one
\* copy, each ordered one copy, both submissions were placed, and no other
\* order was ever recorded (so the book started with one copy)
RaceDone(j, k) ==
  /\ j # k /\ Done(j) /\ Done(k)
  /\ sub[j].uid # sub[k].uid
  /\ sub[j].outcome = "placed" /\ sub[k].outcome = "placed"
  /\ sub[j].book.id = sub[k].book.id
  /\ sub[j].book.available_copies = Some(1) /\ sub[k].book.available_copies = Some(1)
  /\ sub[j].quantity = 1 /\ sub[k].quantity = 1
  /\ Cardinality(orders) = 2

\* C2 as stated: after the oversell race both orders are recorded and the
\* book's available_copies is -1.
C2_RaceEndsAtMinusOne ==
  \A j, k \in Clients :
    RaceDone(j, k) =>
      /\ \E o \in orders : o.buyer_id = sub[j].uid /\ o.quantity = Some(1)
      /\ \E o \in orders : o.buyer_id = sub[k].uid /\ o.quantity = Some(1)
      /\ books[sub[j].book.id].available_copies = Some(-1)

\* C2 amended: after the oversell race both orders are recorded and the
\* book's available_copies is 0 when one of the two buyers owns the book and
\* still 1 otherwise; it is never -1.
C2_RaceEndsAtZeroOrOne ==
  \A j, k \in Clients :
    RaceDone(j, k) =>
      LET b == sub[j].book.id IN
      /\ \E o \in orders : o.buyer_id = sub[j].uid /\ o.quantity = Some(1)
      /\ \E o \in orders : o.buyer_id = sub[k].uid /\ o.quantity = Some(1)
      /\ books[b].available_copies =
           IF books[b].user_id \in {sub[j].uid, sub[k].uid} THEN Some(0) ELSE Some(1)

\* two buyers have run the race and neither is the book's owner
C2_Witness ==
  \E j, k \in Clients :
    RaceDone(j, k) /\ books[sub[j].book.id].user_id \notin {sub[j].uid, sub[k].uid}

\* C3: every stored book's available_copies is >= 0 in every state the
\* clients' book loads, order inserts and inventory updates can reach.
C3_CopiesNeverNegative ==
  \A b \in DOMAIN books : The(books[b].available_copies) >= 0

\* an inventory update has landed and taken the last copy while another
\* client still holds a snapshot that shows a copy
C3_Witness ==
  \E j, k \in Clients :
    /\ j # k /\ Done(k) /\ sub[k].updates = 1
    /\ sub[k].preBooks[sub[k].book.id].available_copies # Some(0)
    /\ books[sub[k].book.id].available_copies = Some(0)
    /\ book[j] # Unset /\ book[j].id = sub[k].book.id
    /\ The(book[j].available_copies) >= 1

\* C4: when the order insert of a submission returned an error, that
\* submission issues no inventory update and leaves the books table as it was.
C4_InsertErrorStopsUpdate ==
  \A k \in Clients :
    (sub[k] # Unset /\ sub[k].insertError # "none") =>
      /\ pc[k] # "update"
      /\ sub[k].updates = 0
      /\ sub[k].solo => books = sub[k].preBooks

\* a submission whose order insert failed has ended
C4_Witness ==
  \E k \in Clients :
    Done(k) /\ sub[k].inserts = 1 /\ sub[k].insertError # "none"
            /\ sub[k].outcome = "error"

\* C5: a submission whose quantity exceeds the loaded available_copies ends
\* at once: no order insert and no inventory update is issued, the tables are
\* untouched by it and the loading flag is false.
C5_ExcessQuantityRejected ==
  \A k \in Clients :
    (sub[k] # Unset
       /\ sub[k].quantity > The(sub[k].book.available_copies)) =>
      /\ pc[k] = "done"
      /\ sub[k].inserts = 0 /\ sub[k].updates = 0
      /\ ~loading[k]
      /\ sub[k].solo => (orders = sub[k].preOrders /\ books = sub[k].preBooks)

\* a signed-in buyer's submission was rejected by the local check
C5_Witness ==
  \E k \in Clients :
    Done(k) /\ sub[k].uid # NoUser /\ sub[k].outcome = "rejected"
            /\ sub[k].quantity > The(sub[k].book.available_copies)

\* ----------------------------------------------------- claims on the store
\* C6: an insert into orders by caller c stores the row iff c is the row's
\* buyer_id (the row naming an existing book), and is refused by the policy
\* iff c is not; a read by caller c returns exactly the rows whose buyer_id
\* or seller_id is c, so nothing for any other caller or without a session.
C6_OrdersAuthorization ==
  /\ last.op = "orders.insert" =>
       LET stored == \E o \in orders \ last.was :
                        /\ orders = last.was \cup {o}
                        /\ [o EXCEPT !.id = NULL] = last.row
       IN
       /\ (last.error = "rls") <=> (last.caller # last.row.buyer_id)
       /\ last.row.book_id \in DOMAIN books =>
            (stored <=> last.caller = last.row.buyer_id)
       /\ ~stored => orders = last.was
       /\ stored <=> last.error = "none"
  /\ last.op = "orders.select" =>
       last.rows = {o \in orders : last.caller \in {o.buyer_id, o.seller_id}}

\* a seller reads an order someone else placed, and does not get another
\* order that is not theirs
C6_Witness ==
  /\ last.op = "orders.select"
  /\ \E o \in last.rows : o.seller_id = last.caller /\ o.buyer_id # last.caller
  /\ orders \ last.rows # {}

\* the price rule as the spec's data model words it for sell-mode rows
SellPriceOk(row) ==
  row.mode = "sell" => (row.price # None /\ The(row.price) > 0)

\* C7: an insert of a book by caller c is admitted iff c is the row's
\* user_id; an update or delete of a stored book touches it iff c is the
\* stored row's user_id; a read returns every book to every caller.
C7_BooksAuthorization ==
  /\ last.op = "books.insert" =>
       LET stored == books = [b \in DOMAIN last.was \cup {last.id} |->
                                IF b = last.id THEN last.row ELSE last.was[b]]
       IN
       /\ (last.error = "rls") <=> (last.caller # last.row.user_id)
       /\ SellPriceOk(last.row) => (stored <=> last.caller = last.row.user_id)
       /\ ~stored => books = last.was
       /\ stored <=> last.error = "none"
  /\ (last.op = "books.update" /\ last.id \in DOMAIN last.was) =>
       LET old == last.was[last.id]
           new == Patch(old, last.patch)
           updated == books = [last.was EXCEPT ![last.id] = new]
       IN
       /\ last.count = 1 => (last.caller = old.user_id /\ updated)
       /\ (new.user_id = old.user_id /\ SellPriceOk(new)) =>
            (last.count = 1 <=> last.caller = old.user_id)
       /\ last.caller # old.user_id => last.error = "none"
       /\ last.count = 0 => books = last.was
  /\ (last.op = "books.update" /\ last.id \notin DOMAIN last.was) =>
       (last.count = 0 /\ books = last.was)
  /\ (last.op = "books.delete" /\ last.id \in DOMAIN last.was) =>
       /\ (last.id \notin DOMAIN books) <=> (last.caller = last.was[last.id].user_id)
       /\ \A b \in DOMAIN last.was \ {last.id} :
            b \in DOMAIN books /\ books[b] = last.was[b]
       /\ last.id \in DOMAIN books => books = last.was
  /\ last.op = "books.select" => last.rows = DOMAIN books

\* a caller who is not the owner tried to update a stored book, with no effect
\* and no error
C7_Witness ==
  /\ last.op = "books.update" /\ last.id \in DOMAIN last.was
  /\ last.caller \in ApiUsers /\ last.caller # last.was[last.id].user_id
  /\ last.patch = [price |-> Some(0)]
  /\ last.count = 0 /\ books = last.was

\* C8: an insert of a missing profile row by caller c stores it iff c is the
\* row's id, an update of full_name touches the row iff c is the row's id, no
\* caller can move a row to another id or delete it, and a read returns every
\* profile to every caller.
C8_ProfilesAuthorization ==
  /\ last.op = "profiles.insert" =>
       LET stored == profiles = [u \in DOMAIN last.was \cup {last.id} |->
                                   IF u = last.id THEN [full_name |-> last.name]
                                   ELSE last.was[u]]
       IN
       /\ (last.error = "rls") <=> (last.caller # last.id)
       /\ last.id \notin DOMAIN last.was =>
            (stored <=> last.caller = last.id)
       /\ (last.id \in DOMAIN last.was \/ last.caller # last.id) =>
            profiles = last.was
  /\ (last.op = "profiles.update" /\ last.id \in DOMAIN last.was) =>
       LET updated == profiles = [last.was EXCEPT ![last.id] =
                                    [full_name |-> last.name]]
       IN
       /\ last.count = 1 => (last.caller = last.id /\ updated)
       /\ last.newId = last.id => (last.count = 1 <=> last.caller = last.id)
       /\ last.newId # last.id => last.count = 0
       /\ last.count = 0 => profiles = last.was
  /\ (last.op = "profiles.update" /\ last.id \notin DOMAIN last.was) =>
       (last.count = 0 /\ profiles = last.was)
  /\ last.op = "profiles.delete" => (last.count = 0 /\ profiles = last.was)
  /\ last.op = "profiles.select" => last.rows = DOMAIN profiles

\* a user inserted their own missing profile row
C8_Witness ==
  /\ last.op = "profiles.insert"
  /\ last.id \notin DOMAIN last.was /\ last.id \in DOMAIN profiles
  /\ last.caller = last.id

\* C9: every stored sell-mode book has a non-null price > 0, and an insert
\* or update that would leave a sell-mode book with a null, zero or negative
\* price is rejected and leaves the table unchanged.
C9_SellBooksPriced ==
  /\ \A b \in DOMAIN books :
       books[b].mode = "sell" =>
         (books[b].price # None /\ The(books[b].price) > 0)
  /\ (last.op = "books.insert" /\ ~SellPriceOk(last.row)) =>
       /\ books = last.was
       /\ last.error = IF last.caller = last.row.user_id THEN "check" ELSE "rls"
  /\ (last.op = "books.update" /\ last.id \in DOMAIN last.was
        /\ ~SellPriceOk(Patch(last.was[last.id], last.patch))) =>
       /\ books = last.was
       /\ last.count = 0
       /\ last.caller = last.was[last.id].user_id => last.error = "check"

\* the owner of a priced donate-mode book tried to switch it to sell with a
\* price of zero: first the price, then the mode, which was rejected
C9_Witness ==
  /\ last.op = "books.update" /\ last.id \in DOMAIN last.was
  /\ last.caller = last.was[last.id].user_id
  /\ last.patch = [mode |-> "sell"]
  /\ last.was[last.id].price = Some(0)
  /\ last.error = "check" /\ books = last.was

\* C10 as stated: every stored donate or exchange book has a null price, and
\* an insert of a non-sell book with a non-null price is rejected.
C10_NonSellPriceNull ==
  /\ \A b \in DOMAIN books :
       books[b].mode \in {"donate", "exchange"} => books[b].price = None
  /\ (last.op = "books.insert" /\ last.row.mode \in {"donate", "exchange"}
        /\ last.row.price # None) =>
       (last.error # "none" /\ books = last.was)

\* C10 amended: the store accepts an owner's insert of a donate or exchange
\* book whatever its price, so a stored non-sell book may carry a price.
C10_NonSellPriceFree ==
  (last.op = "books.insert" /\ last.row.mode \in {"donate", "exchange"}
     /\ last.caller = last.row.user_id) =>
    /\ last.error = "none"
    /\ last.id \in DOMAIN books /\ books[last.id] = last.row

\* an exchange-mode book with a price was inserted by its owner and stored
C10_Witness ==
  /\ last.op = "books.insert" /\ last.row.mode = "exchange"
  /\ last.row.price = Some(200) /\ last.caller = last.row.user_id
  /\ last.id \in DOMAIN books /\ books[last.id] = last.row

\* ------------------------------------------------ claims on account creation
\* C11: signing up with identity u and metadata full_name = n leaves, with no
\* insert request by a client, a profile row with id = u and full_name = n
\* that was not there before; and in every state the ids that have a profile
\* row are exactly the existing accounts (one row per account: id is the
\* primary key).
C11_SignupProvisioning ==
  /\ DOMAIN profiles = accounts
  /\ last.op = "signUp" =>
       /\ last.id \notin DOMAIN last.was
       /\ last.id \in DOMAIN profiles
       /\ "full_name" \in DOMAIN last.meta =>
            profiles[last.id].full_name = last.meta.full_name
       /\ \A id \in DOMAIN last.was : id \in DOMAIN profiles /\ profiles[id] = last.was[id]

C11_Witness ==
  /\ last.op = "signUp"
  /\ last.id = "u3"
  /\ last.meta = [full_name |-> "m"]
  /\ profiles["u3"].full_name = "m"
  /\ accounts = Users

\* ------------------------------------------------------- claims on the chat
\* C12: mark-as-read is idempotent.  For every conversation c and caller u,
\* marking the stored messages twice gives the table that marking once gives,
\* and a message already read, sent by u or of another conversation is in
\* both results as it was; and when markMessagesAsRead runs again for the
\* same conversation and caller with no insert in between, the second call
\* flips no message.
C12_MarkReadIdempotent ==
  /\ \A c \in ConvIds, u \in Users :
       LET once == MarkedRead(messages, c, u)
           twice == MarkedRead(once, c, u)
       IN /\ twice = once
          /\ \A m \in messages :
               (m.read \/ m.sender_id = u \/ m.conversation_id # c)
                 => (m \in once /\ m \in twice)
          /\ {m.id : m \in {x \in twice : x.read}} = {m.id : m \in {x \in once : x.read}}
  /\ (last.op = "messages.update" /\ last.again) => last.count = 0

C12_Witness ==
  /\ last.op = "messages.update"
  /\ last.again
  /\ last.error = "ok"
  /\ last.caller = "u1"
  /\ chat[1].pc = "idle"
  /\ \E m \in messages :
       m.conversation_id = last.conv /\ m.sender_id = "u2" /\ m.read
  /\ \E m \in messages :
       m.conversation_id = last.conv /\ m.sender_id = "u1" /\ ~m.read

\* C13: message life cycle.  In every step every stored message stays stored
\* with the same id, conversation, sender and created_at; a new message is
\* unread; a read flag never goes from true to false; and a flag goes from
\* false to true only in a mark-as-read whose caller is not the sender.
C13_MessageLifeCycle ==
  [][/\ \A m \in messages :
          \E n \in messages' :
            /\ n.id = m.id
            /\ n.conversation_id = m.conversation_id
            /\ n.sender_id = m.sender_id
            /\ n.created_at = m.created_at
            /\ m.read => n.read
            /\ (~m.read /\ n.read) =>
                 /\ last'.op = "messages.update"
                 /\ last'.conv = m.conversation_id
                 /\ last'.caller # m.sender_id
     /\ \A n \in messages' :
          (\A m \in messages : m.id # n.id) => ~n.read
     /\ Cardinality({n.id : n \in messages'}) = Cardinality(messages')]_vars

C13_Witness ==
  /\ \E m \in messages : m.sender_id = "u1" /\ m.read
  /\ \E m \in messages : m.sender_id = "u2" /\ m.read
  /\ chat[1].pc = "idle"
  /\ last.op = "messages.update"

\* C14: message ordering.  A fetchMessages that succeeds sets the page's list
\* to the stored messages of its conversation, each once and no other
\* message, with a message of earlier created_at before a message of later
\* created_at.
C14_FetchOrdered ==
  [][\A k \in Clients :
       (/\ chat[k].pc = "fetchMessages"
        /\ chat'[k].pc = "markMessagesAsRead"
        /\ "Error fetching messages:" \notin chat'[k].log)
       => LET s == chat'[k].messages
              rows == {m \in messages : m.conversation_id = chat[k].conversationId}
          IN /\ Len(s) = Cardinality(rows)
             /\ {s[i] : i \in 1..Len(s)} = rows
             /\ \A i, j \in 1..Len(s) :
                  s[i].created_at < s[j].created_at => i < j]_vars

C14_Witness ==
  /\ chat[1].pc = "markMessagesAsRead"
  /\ chat[1].conversationId = "c1"
  /\ chat[1].log = {}
  /\ chat[1].inbox = <<>>
  /\ Len(chat[1].messages) = 3
  /\ {chat[1].messages[i] : i \in 1..3} = messages
  /\ chat[1].messages[1].created_at < chat[1].messages[2].created_at
  /\ chat[1].messages[2].created_at < chat[1].messages[3].created_at
  /\ chat[1].messages[1].sender_id = "u2"
  /\ chat[1].messages[2].sender_id = "u1"
  /\ chat[1].messages[3].sender_id = "u2"

\* C15: append a message.  A sendMessage whose draft is empty or all
\* whitespace sends nothing.  A request is sent only with a conversation id
\* and a current user set, and carries sender_id = the signed-in user and
\* content = the draft without its leading and trailing whitespace, which is
\* not empty; the row stored for the page's user carries exactly the
\* request's conversation, sender and content; and no step changes the
\* content of a stored message.
C15_AppendMessage ==
  /\ [](\A k \in Clients :
          /\ (chat[k].submit # Unset
                /\ \A i \in 1..Len(chat[k].submit.draft) : chat[k].submit.draft[i] = " ")
               => chat[k].send = Unset
          /\ chat[k].send # Unset =>
               LET d == chat[k].submit.draft
                   c == chat[k].send.content
               IN /\ chat[k].conversationId # NULL
                  /\ chat[k].currentUser # Unset
                  /\ session[k] # NoUser
                  /\ chat[k].send.sender_id = session[k]
                  /\ chat[k].send.conversation_id = chat[k].conversationId
                  /\ c # <<>> /\ c[1] # " " /\ c[Len(c)] # " "
                  /\ \E i \in 1..Len(d) : \E j \in i..Len(d) :
                       /\ c = SubSeq(d, i, j)
                       /\ \A x \in 1..Len(d) : (x < i \/ x > j) => d[x] = " ")
  /\ [][/\ \A m \in messages :
             \E n \in messages' : n.id = m.id /\ n.content = m.content
        /\ \A n \in messages' :
             ((\A m \in messages : m.id # n.id) /\ n.sender_id = session[1]) =>
               /\ chat[1].send # Unset
               /\ n.sender_id = chat[1].send.sender_id
               /\ n.conversation_id = chat[1].send.conversation_id
               /\ n.content = chat[1].send.content]_vars

C15_Witness ==
  /\ \E m \in messages :
       /\ m.sender_id = "u1"
       /\ m.content = <<"a">>
       /\ m.conversation_id = chat[1].conversationId
       /\ m.read
  /\ chat[1].submit = [draft |-> <<" ">>, issued |-> FALSE]
  /\ chat[1].send = Unset

\* C16: live delivery.  When an open Chat page takes a notification of a new
\* message of its conversation, the message is appended to the page's list,
\* and if its sender is not the page's user a mark-as-read call is issued, so
\* that the message gets read: after the step the message is read in the
\* store or the page has a markMessagesAsRead still to run.
C16_LiveDelivery ==
  [][\A k \in Clients :
       (/\ chat[k].inbox # <<>>
        /\ chat'[k].pc \notin {"closed", "auth"}
        /\ chat'[k].inbox = Tail(chat[k].inbox))
       => /\ chat'[k].messages = Append(chat[k].messages, Head(chat[k].inbox))
          /\ Head(chat[k].inbox).conversation_id = chat[k].conversationId
          /\ Head(chat[k].inbox).sender_id # session[k]
               => \/ \E m \in messages' : m.id = Head(chat[k].inbox).id /\ m.read
                  \/ chat'[k].pc \in {"getSession", "fetchConversation",
                                       "fetchMessages", "markMessagesAsRead"}]_vars

C17_NoSessionRedirect ==
  /\ [](session[1] = NoUser =>
         /\ pc[1] \notin {"insert", "update"}
         /\ sub[1] # Unset =>
              /\ sub[1].outcome = "auth" /\ route[1] = "auth"
              /\ sub[1].inserts = 0 /\ sub[1].updates = 0
         /\ addBook[1].pc \notin {"upload", "insert"}
         /\ addBook[1].calls = {}
         /\ addBook[1].pc = "done" =>
              addBook[1].outcome = "auth" /\ route[1] = "auth"
         /\ chat[1].pc \in {"closed", "getSession", "auth"}
         /\ chat[1].calls = {}
         /\ chat[1].pc = "auth" => route[1] = "auth")
  /\ [][session[1] = NoUser =>
          UNCHANGED <<storeVars, messages, conversations, objects>>]_vars

\* a visitor without a session has submitted the checkout form and is on the
\* sign-in route
C17_Witness ==
  /\ session[1] = NoUser
  /\ sub[1] # Unset /\ sub[1].outcome = "auth"
  /\ route[1] = "auth"

\* C18: once an order row is created no request of any caller changes a field
\* of it or removes it, and its status is 'pending' in every reachable state
C18_OrdersWriteOnce ==
  /\ [](\A o \in orders : o.status = "pending")
  /\ [][\A o \in orders : o \in orders']_vars

\* C20: a submission issues at most one order insert and at most one
\* inventory update; when the update fails after the insert succeeded the
\* handler ends, the order row stays recorded and, no other client having
\* written meanwhile, orders holds exactly that one row more and the books
\* table is as it was before the submission
C20_UpdateFailureKeepsOrder ==
  \A k \in Clients :
    sub[k] # Unset =>
      /\ sub[k].inserts <= 1 /\ sub[k].updates <= 1
      /\ (sub[k].insertError = "none" /\ sub[k].updateError # "none") =>
           /\ sub[k].inserts = 1 /\ sub[k].updates = 1
           /\ pc[k] = "done"
           /\ \E o \in orders \ sub[k].preOrders :
                /\ o = [OrderRow(sub[k].book, sub[k].uid, sub[k].quantity)
                          EXCEPT !.id = o.id]
                /\ sub[k].solo => orders = sub[k].preOrders \cup {o}
           /\ sub[k].solo => books = sub[k].preBooks

\* the inventory update of a submission failed after its order insert succeeded
C20_Witness ==
  \E k \in Clients :
    /\ sub[k] # Unset /\ sub[k].inserts = 1 /\ sub[k].insertError = "none"
    /\ sub[k].updates = 1 /\ sub[k].updateError # "none"
    /\ sub[k].outcome = "error" /\ sub[k].solo

\* C21: every order row recorded through Checkout has a quantity of at least
\* 1 and a total_price of at least 0, whatever was typed into the quantity
\* field
C21_OrderQuantityPositive ==
  \A o \in orders : The(o.quantity) >= 1 /\ The(o.total_price) >= 0

\* C22: no request changes the user_id of a stored book or the buyer_id or
\* seller_id of a stored order: the owner cannot hand the book to another
\* user and another user cannot take it
C22_OwnerFieldsImmutable ==
  [][/\ \A b \in DOMAIN books \cap DOMAIN books' :
          books'[b].user_id = books[b].user_id
     /\ \A o \in orders, n \in orders' :
          n.id = o.id => (n.buyer_id = o.buyer_id /\ n.seller_id = o.seller_id)]_vars

\* the owner of a book that has an order asked for the book's user_id to
\* become another user, and was refused
C22_Witness ==
  /\ last.op = "books.update" /\ last.id \in DOMAIN last.was
  /\ last.caller = last.was[last.id].user_id
  /\ "user_id" \in DOMAIN last.patch /\ last.patch.user_id # last.caller
  /\ last.error = "rls" /\ books = last.was
  /\ \E o \in orders : o.book_id = last.id

\* C23: an open Chat view holds exactly one channel, that of its current
\* conversation id, and a view that is not open holds none; the channel is
\* removed when the view closes or its conversation id changes, and the only
\* notifications that are pending or appended to the list come from the
\* channel held at that moment
C23_SubscriptionLifeCycle ==
  /\ [](\A k \in Clients :
         /\ chat[k].pc \notin {"closed", "auth"} =>
              chat[k].channels = {chat[k].conversationId}
         /\ chat[k].pc \in {"closed", "auth"} => chat[k].channels = {}
         /\ \A i \in 1..Len(chat[k].inbox) :
              chat[k].inbox[i].conversation_id \in chat[k].channels)
  /\ [][\A k \in Clients :
          (chat[k].inbox # <<>> /\ chat'[k].inbox = Tail(chat[k].inbox)
             /\ Len(chat'[k].messages) = Len(chat[k].messages) + 1) =>
            /\ chat'[k].messages = Append(chat[k].messages, Head(chat[k].inbox))
            /\ Head(chat[k].inbox).conversation_id = chat[k].conversationId
            /\ chat[k].channels = {chat[k].conversationId}]_vars

\* the view was taken from c1, whose messages it still lists, to c2, holds the
\* channel of c2 alone and a message of c1 was sent since
C23_Witness ==
  /\ chat[1].conversationId = "c2" /\ chat[1].channels = {"c2"}
  /\ chat[1].pc = "idle" /\ chat[1].inbox = <<>>
  /\ \E i \in 1..Len(chat[1].messages) : chat[1].messages[i].conversation_id = "c1"
  /\ \E m \in messages :
       /\ m.conversation_id = "c1"
       /\ \A i \in 1..Len(chat[1].messages) : chat[1].messages[i].id # m.id

\* C24: once the initial fetchMessages has been applied and no response and
\* no notification is pending, the list of an open Chat view holds every
\* stored message of its conversation exactly once, in ascending created_at
\* order
C24_ListConsistent ==
  \A k \in Clients :
    (/\ chat[k].pc = "idle" /\ chat[k].inbox = <<>> /\ chat[k].send = Unset
     /\ "Error fetching messages:" \notin chat[k].log) =>
      LET l == chat[k].messages
          ids == {m.id : m \in {n \in messages :
                                  n.conversation_id = chat[k].conversationId}}
      IN /\ {l[i].id : i \in 1..Len(l)} = ids
         /\ \A i, j \in 1..Len(l) : i # j => l[i].id # l[j].id
         /\ \A i, j \in 1..Len(l) : i < j => l[i].created_at <= l[j].created_at

\* C25: whenever no checkout submission is in flight, the available_copies
\* of b1 plus the quantities of the orders recorded for b1 is the count b1
\* was listed with
C25_InventoryConserved ==
  LET RECURSIVE Sold(_)
      Sold(os) == IF os = {} THEN 0
                  ELSE LET o == CHOOSE x \in os : TRUE
                       IN The(o.quantity) + Sold(os \ {o})
  IN (\A k \in Clients : pc[k] \notin {"insert", "update"}) =>
       The(books["b1"].available_copies)
         + Sold({o \in orders : o.book_id = "b1"}) = MaxCopies

\* C26: every stored order names as seller_id the user_id of the book it
\* references, and its total_price is that book's price times its quantity,
\* whoever inserted it
C26_OrderNamesSeller ==
  \A o \in orders :
    o.book_id \in DOMAIN books =>
      /\ o.seller_id = books[o.book_id].user_id
      /\ The(o.total_price) = TotalPrice(books[o.book_id], The(o.quantity))

\* C27: every order references a stored book and every book a stored
\* profile; a deleted book leaves no order that references it, and a deleted
\* account leaves neither its profile nor a book of its own
C27_ReferentialIntegrity ==
  /\ [](/\ \A o \in orders : o.book_id \in DOMAIN books
        /\ \A b \in DOMAIN books : books[b].user_id \in DOMAIN profiles)
  /\ [][/\ \A b \in DOMAIN books \ DOMAIN books' :
            \A o \in orders' : o.book_id # b
       /\ \A u \in accounts \ accounts' :
            /\ u \notin DOMAIN profiles'
            /\ \A b \in DOMAIN books' : books'[b].user_id # u]_vars

\* an account that had a profile was deleted, and with it its books and the
\* orders placed on them
C27_Witness ==
  /\ last.op = "deleteAccount" /\ last.id \in DOMAIN last.was
  /\ last.id \notin accounts /\ last.id \notin DOMAIN profiles
  /\ nextOrderId > 1 /\ orders = {}

\* C28: a book whose handleDelete has succeeded at the store is never again
\* in the list of that view, also when another handleDelete was started
\* before the first one's result was applied; a handleDelete that gets an
\* error leaves the list as it is
C28_DeletedStaysGone ==
  /\ [](\A k \in Clients : myBooks[k].gone \cap myBooks[k].books = {})
  /\ [][\A k \in Clients :
          ("Error deleting book:" \in myBooks'[k].log
             /\ Cardinality(myBooks'[k].deletes) < Cardinality(myBooks[k].deletes)
             /\ myBooks'[k].gone = myBooks[k].gone) =>
            myBooks'[k].books = myBooks[k].books]_vars

\* C29: the list of an open Chat view holds only messages of the view's
\* current conversation, at every moment after the conversation id has
\* changed as well: while the fetch for the new id is pending and when it
\* fails
C29_ListOfCurrentConversation ==
  \A k \in Clients :
    chat[k].pc \notin {"closed", "auth"} =>
      \A i \in 1..Len(chat[k].messages) :
        chat[k].messages[i].conversation_id = chat[k].conversationId

\* C30: the book insert of AddBook.handleSubmit carries user_id = the
\* session's user and price null unless the mode is sell; with an image
\* chosen it is issued only after the upload has stored the image, a failed
\* upload ends the handler with no insert and the books table untouched; and
\* when the handler has returned, on whichever path, loading is false
C30_AddBookSubmit ==
  /\ [](\A k \in Clients :
         LET a == addBook[k] IN
         /\ a.sent # Unset =>
              /\ a.sent.user_id = session[k] /\ session[k] # NoUser
              /\ a.sent.mode = a.mode
              /\ a.mode # "sell" => a.sent.price = None
              /\ a.mode = "sell" => a.sent.price = a.price
         /\ (a.imageFile /\ (a.pc = "insert" \/ "books.insert" \in a.calls)) =>
              /\ "storage.upload" \in a.calls
              /\ \E o \in objects : o.bucket_id = "book-images"
         /\ ("books.insert" \in a.calls) <=> (a.sent # Unset)
         /\ a.pc = "done" =>
              /\ ~a.loading
              /\ a.outcome \in {"auth", "error", "added"})
  /\ [][\A k \in Clients :
          (addBook[k].pc = "upload" /\ addBook'[k].pc # "upload"
             /\ objects' = objects) =>
            /\ addBook'[k].pc = "done" /\ addBook'[k].outcome = "error"
            /\ addBook'[k].sent = Unset /\ books' = books]_vars

\* a donation with an image and a price typed into the form has been added:
\* the image was stored first and the row went out with price null
C30_Witness ==
  /\ addBook[1].pc = "done" /\ addBook[1].outcome = "added"
  /\ addBook[1].mode = "donate" /\ addBook[1].price = Some(200)
  /\ addBook[1].imageFile /\ addBook[1].calls = {"storage.upload", "books.insert"}
  /\ addBook[1].sent.price = None /\ ~addBook[1].loading
  /\ \E b \in DOMAIN books : books[b] = addBook[1].sent

====
